---- MODULE Spec2Model ----
(***************************************************************************)
(* Model of uwcirg/jwt-proxy: the JWT-validating reverse proxy             *)
(* (jwt_proxy/api.py), its policy engine (jwt_proxy/policy_engine.py) and  *)
(* the shipped policy modules (jwt_proxy/policies/*.py).                   *)
(*                                                                         *)
(* Representation                                                          *)
(*  - A Python value returned by a rule is a tagged record (PyNone,        *)
(*    PyBool, PyStr, PyInt, PyTuple), so that isinstance() and `is True`   *)
(*    are decided on the tag as the interpreter decides them.              *)
(*  - A string is a sequence of text chunks.  Verdict strings are spelled  *)
(*    one character per chunk so that str.lower() is computed character    *)
(*    by character; the empty string is <<>>.                              *)
(*  - A URL path is a sequence of lexical tokens, "/" being one of them:   *)
(*    "/fhir/Patient" is <<"/", "fhir", "/", "Patient">>.  startswith, `in`*)
(*    and the regular expression of 05_allow_patient_summary are computed  *)
(*    on the token sequence.                                               *)
(*  - A JSON value is a tagged record (JNull, JStr, JNum, JList, JDict).   *)
(***************************************************************************)
EXTENDS Integers, Sequences, FiniteSets, TLC

VARIABLES
    policies,     \* POLICIES_DIR: whether it is configured, whether it is a directory, and its files
    pc,           \* position of the request being handled
    req,          \* the request: method, path, authorization header
    user_info,    \* decoded JWT claims handed to the engine (JNull when absent)
    response,     \* what the client receives: status and body
    trace,        \* what happened while handling: JWKS fetches, rules invoked, upstream calls, audit events
    registry,     \* policy_engine's module globals: _loaded_policies and the two transformer lists
    body,         \* the body handed to a transformer chain
    engine,       \* result of the last call into policy_engine
    config        \* app.config: the settings of the process, by key

vars == <<policies, pc, req, user_info, response, trace, registry, body, engine, config>>

(***************************************************************************)
(* Bounds of the model                                                     *)
(***************************************************************************)
MaxPathLen == 2        \* tokens after the leading "/" of a request path (pipeline)
MaxHeaderLen == 2      \* chunks of an Authorization header value
MaxRules == 3          \* rules in a synthetic rule list handed to the engine
MaxEnginePathLen == 4  \* tokens after the leading "/" of a path handed to the engine
MaxLabels == 2         \* labels in the meta.security of a resource
MaxEntries == 3        \* entries of a Bundle
MaxIdLen == 1          \* tokens of the {id} segment of a FHIR path
MaxTxEntries == 2      \* entries of a transaction Bundle
MaxKeyLen == 3         \* chunks of the {config_key} segment of a settings path
MaxModules == 2        \* modules in a synthetic POLICIES_DIR handed to load_policies
MaxReloads == 2        \* calls of create_app after the first one in one process
MaxTransformers == 3   \* modules of a directory of user-supplied transformers
MaxWorkers == 2        \* requests handled at the same time

(***************************************************************************)
(* Python values                                                           *)
(***************************************************************************)
PyNone == [py |-> "None"]
PyBool(b) == [py |-> "bool", b |-> b]
PyStr(chunks) == [py |-> "str", chunks |-> chunks]
PyInt(n) == [py |-> "int", n |-> n]
PyTuple(items) == [py |-> "tuple", items |-> items]
PyRaise == [py |-> "raise"]

\* Python truthiness of a value (`x or default`, `if not x`)
Truthy(v) ==
    CASE v.py = "None" -> FALSE
      [] v.py = "bool" -> v.b
      [] v.py = "str" -> Len(v.chunks) > 0
      [] v.py = "int" -> v.n # 0
      [] v.py = "tuple" -> Len(v.items) > 0
      [] OTHER -> TRUE

LowerChar(c) ==
    CASE c = "A" -> "a" [] c = "L" -> "l" [] c = "O" -> "o" [] c = "W" -> "w"
      [] c = "D" -> "d" [] c = "E" -> "e" [] c = "N" -> "n" [] c = "Y" -> "y"
      [] OTHER -> c

\* str.lower()
Lower(chunks) == [i \in 1..Len(chunks) |-> LowerChar(chunks[i])]

StrAllow == <<"a", "l", "l", "o", "w">>
StrDeny == <<"d", "e", "n", "y">>

(***************************************************************************)
(* JSON values                                                             *)
(***************************************************************************)
JNull == [t |-> "null"]
JStr(s) == [t |-> "str", s |-> s]
JNum(n) == [t |-> "num", n |-> n]
JList(items) == [t |-> "list", items |-> items]
JDict(d) == [t |-> "dict", d |-> d]
EmptyDict == JDict(<<>>)

IsDict(v) == v.t = "dict"
IsList(v) == v.t = "list"
HasKey(v, k) == k \in DOMAIN v.d
\* dict.get(k, default)
JGet(v, k, default) == IF k \in DOMAIN v.d THEN v.d[k] ELSE default

\* Python truthiness of a decoded JSON value
JTruthy(v) ==
    CASE v.t = "null" -> FALSE
      [] v.t = "str" -> v.s # ""
      [] v.t = "num" -> v.n # 0
      [] v.t = "list" -> Len(v.items) > 0
      [] v.t = "dict" -> DOMAIN v.d # {}
      [] OTHER -> TRUE

(***************************************************************************)
(* Sequence helpers for paths                                              *)
(***************************************************************************)
\* str.startswith
StartsWith(s, prefix) ==
    /\ Len(s) >= Len(prefix)
    /\ SubSeq(s, 1, Len(prefix)) = prefix

\* `sub in s` for strings
Contains(s, sub) ==
    \E i \in 1..(Len(s) - Len(sub) + 1) : SubSeq(s, i, i + Len(sub) - 1) = sub

(***************************************************************************)
(* Requests                                                                *)
(***************************************************************************)
SUPPORTED_METHODS == {"GET", "POST", "PUT", "DELETE", "OPTIONS"}

Slash == "/"
PathWellKnown == <<Slash, ".well-known">>            \* "/.well-known"
PathWellKnownSeg == <<Slash, ".well-known", Slash>>  \* "/.well-known/"
PathFhir == <<Slash, "fhir", Slash>>                 \* "/fhir/"

(***************************************************************************)
(* Policy module files                                                     *)
(*                                                                         *)
(* A file of POLICIES_DIR is a record: fname, the file name as tokens      *)
(* (<<"0", "5", "_allow_patient_summary", ".py">>); loads, whether         *)
(* exec_module succeeds; and one field per attribute the module may        *)
(* export.  An attribute is NoAttr (not defined), NotCallable, Shipped     *)
(* (the function of that name in the shipped source file) or, for a        *)
(* user-supplied module, the outcome its callable produces: a Python       *)
(* value, or PyRaise when it raises.                                       *)
(***************************************************************************)
NoAttr == [py |-> "absent"]
NotCallable == [py |-> "notcallable"]
Shipped == [py |-> "shipped"]

IsCallable(attr) == attr # NoAttr /\ attr # NotCallable

ShippedFile(d1, d2, stem, tq, tp) ==
    [fname |-> <<d1, d2, stem, ".py">>, loads |-> TRUE,
     evaluate |-> Shipped, rule |-> NoAttr,
     transform_request |-> tq, transform_response |-> tp]

File_00_allow_well_known == ShippedFile("0", "0", "_allow_well_known", NoAttr, NoAttr)
File_05_allow_patient_summary == ShippedFile("0", "5", "_allow_patient_summary", NoAttr, Shipped)
File_10_allow_fhir == ShippedFile("1", "0", "_allow_fhir", NoAttr, NoAttr)
File_50_fhir_request_security == ShippedFile("5", "0", "_fhir_request_security", Shipped, NoAttr)
File_51_fhir_response_security == ShippedFile("5", "1", "_fhir_response_security", NoAttr, Shipped)
File_99_default_deny == ShippedFile("9", "9", "_default_deny", NoAttr, NoAttr)

\* jwt_proxy/policies as shipped
ShippedPolicies ==
    {File_00_allow_well_known, File_05_allow_patient_summary, File_10_allow_fhir,
     File_50_fhir_request_security, File_51_fhir_response_security, File_99_default_deny}

DefaultDenyMessage == <<"Request denied by default policy - no matching rule found">>

\* 00_allow_well_known.evaluate
evaluate_00_allow_well_known(request, ui) ==
    LET path == request.path
    IN  IF StartsWith(path, PathWellKnown) \/ Contains(path, PathWellKnownSeg)
        THEN PyStr(StrAllow)
        ELSE PyNone

\* mutant: the prefix tested is "/fhir", without the trailing slash
evaluate_10_allow_fhir_NoSlash(request, ui) ==
    LET path == request.path
    IN  IF StartsWith(path, <<Slash, "fhir">>) THEN PyStr(StrAllow) ELSE PyNone

\* 10_allow_fhir.evaluate
evaluate_10_allow_fhir(request, ui) ==
    LET path == request.path
    IN  IF StartsWith(path, PathFhir) THEN PyStr(StrAllow) ELSE PyNone

\* 99_default_deny.evaluate
evaluate_99_default_deny(request, ui) ==
    PyTuple(<<PyStr(StrDeny), PyStr(DefaultDenyMessage)>>)

\* evaluate of 05_allow_patient_summary, 50_fhir_request_security, 51_fhir_response_security
evaluate_transformer_module(request, ui) == PyNone

ShippedEvaluate(file, request, ui) ==
    CASE file.fname = File_00_allow_well_known.fname -> evaluate_00_allow_well_known(request, ui)
      [] file.fname = File_10_allow_fhir.fname -> evaluate_10_allow_fhir(request, ui)
      [] file.fname = File_99_default_deny.fname -> evaluate_99_default_deny(request, ui)
      [] OTHER -> evaluate_transformer_module(request, ui)

(***************************************************************************)
(* sorted(os.listdir(policies_dir)): byte-wise ascending order of names    *)
(***************************************************************************)
\* code of the first byte of a file-name token
ByteOf(tok) ==
    CASE tok = "0" -> 48 [] tok = "1" -> 49 [] tok = "2" -> 50 [] tok = "3" -> 51
      [] tok = "4" -> 52 [] tok = "5" -> 53 [] tok = "6" -> 54 [] tok = "7" -> 55
      [] tok = "8" -> 56 [] tok = "9" -> 57
      [] tok = ".py" -> 46 [] tok = ".txt" -> 46
      [] tok = "README" -> 82
      [] OTHER -> 95      \* "__" and the "_stem" tokens start with an underscore

RECURSIVE NameLess(_, _)
NameLess(a, b) ==
    IF Len(a) = 0 THEN Len(b) > 0
    ELSE IF Len(b) = 0 THEN FALSE
    ELSE IF ByteOf(Head(a)) # ByteOf(Head(b)) THEN ByteOf(Head(a)) < ByteOf(Head(b))
    ELSE NameLess(Tail(a), Tail(b))

RECURSIVE SortedFiles(_)
SortedFiles(files) ==
    IF files = {} THEN <<>>
    ELSE LET first == CHOOSE f \in files : \A g \in files \ {f} : NameLess(f.fname, g.fname)
         IN  <<first>> \o SortedFiles(files \ {first})

EndsWithPy(fname) == Len(fname) > 0 /\ fname[Len(fname)] = ".py"
StartsWithDunder(fname) == Len(fname) > 0 /\ fname[1] = "__"

\* the policy_files list of load_policies and of api.evaluate_policies
PolicyFiles(files) ==
    SelectSeq(SortedFiles(files), LAMBDA f : EndsWithPy(f.fname) /\ ~StartsWithDunder(f.fname))

\* the attribute chosen as policy_callable: evaluate, else rule, else none
PolicyCallable(file) ==
    IF IsCallable(file.evaluate) THEN "evaluate"
    ELSE IF IsCallable(file.rule) THEN "rule"
    ELSE "none"

\* outcome of calling a loaded policy (policy_callable, file_path) on a request
Invoke(p, request, ui) ==
    LET attr == IF p.attr = "evaluate" THEN p.file.evaluate ELSE p.file.rule
    IN  IF attr = Shipped THEN ShippedEvaluate(p.file, request, ui) ELSE attr

(***************************************************************************)
(* Decision engine                                                         *)
(***************************************************************************)
\* mutant: string verdicts compared without lower()
NormaliseVerdict_CaseSensitive(result) ==
    LET isTuple == result.py = "tuple" /\ Len(result.items) >= 1
        first == IF isTuple THEN result.items[1] ELSE result
        message == IF isTuple /\ Len(result.items) >= 2 THEN result.items[2] ELSE PyNone
        decision ==
            IF first.py = "str"
            THEN IF first.chunks = StrAllow THEN PyBool(TRUE)
                 ELSE IF first.chunks = StrDeny THEN PyBool(FALSE)
                 ELSE PyNone
            ELSE first
    IN  [decision |-> decision, message |-> message]

\* lines 102-118 of evaluate_policies: split a tuple result, fold string verdicts
NormaliseVerdict(result) ==
    LET isTuple == result.py = "tuple" /\ Len(result.items) >= 1
        first == IF isTuple THEN result.items[1] ELSE result
        message == IF isTuple /\ Len(result.items) >= 2 THEN result.items[2] ELSE PyNone
        decision ==
            IF first.py = "str"
            THEN LET lowered == Lower(first.chunks)
                 IN  IF lowered = StrAllow THEN PyBool(TRUE)
                     ELSE IF lowered = StrDeny THEN PyBool(FALSE)
                     ELSE PyNone
            ELSE first
    IN  [decision |-> decision, message |-> message]

EngineResult(decision, message, calls) ==
    [decision |-> decision, message |-> message, calls |-> calls, raised |-> FALSE]

\* mutant: a terminal verdict does not end the loop, the last one wins
RECURSIVE RuleLoop_LastWins(_, _, _, _)
RuleLoop_LastWins(loaded, request, ui, calls) ==
    IF loaded = <<>> THEN EngineResult(PyNone, PyNone, calls)
    ELSE LET p == Head(loaded)
             result == Invoke(p, request, ui)
             invoked == Append(calls, p.file.fname)
             rest == RuleLoop_LastWins(Tail(loaded), request, ui, invoked)
         IN  IF result = PyRaise THEN rest
             ELSE LET n == NormaliseVerdict(result)
                  IN  IF n.decision \in {PyBool(TRUE), PyBool(FALSE)} /\ rest.decision = PyNone
                      THEN EngineResult(n.decision, n.message, rest.calls)
                      ELSE rest

\* mutant: an exception raised by a rule ends the evaluation without a decision
RECURSIVE RuleLoop_RaiseStops(_, _, _, _)
RuleLoop_RaiseStops(loaded, request, ui, calls) ==
    IF loaded = <<>> THEN EngineResult(PyNone, PyNone, calls)
    ELSE LET p == Head(loaded)
             result == Invoke(p, request, ui)
             invoked == Append(calls, p.file.fname)
         IN  IF result = PyRaise
             THEN EngineResult(PyNone, PyNone, invoked)
             ELSE LET n == NormaliseVerdict(result)
                  IN  IF n.decision = PyBool(TRUE)
                      THEN EngineResult(PyBool(TRUE), n.message, invoked)
                      ELSE IF n.decision = PyBool(FALSE)
                      THEN EngineResult(PyBool(FALSE), n.message, invoked)
                      ELSE RuleLoop_RaiseStops(Tail(loaded), request, ui, invoked)

\* the loop over loaded policies; calls accumulates the files whose callable was invoked
RECURSIVE RuleLoop(_, _, _, _)
RuleLoop(loaded, request, ui, calls) ==
    IF loaded = <<>> THEN EngineResult(PyNone, PyNone, calls)
    ELSE LET p == Head(loaded)
             result == Invoke(p, request, ui)
             invoked == Append(calls, p.file.fname)
         IN  IF result = PyRaise
             THEN RuleLoop(Tail(loaded), request, ui, invoked)
             ELSE LET n == NormaliseVerdict(result)
                  IN  IF n.decision = PyBool(TRUE)
                      THEN EngineResult(PyBool(TRUE), n.message, invoked)
                      ELSE IF n.decision = PyBool(FALSE)
                      THEN EngineResult(PyBool(FALSE), n.message, invoked)
                      ELSE RuleLoop(Tail(loaded), request, ui, invoked)

\* policy_engine.evaluate_policies: over the pre-loaded _loaded_policies
evaluate_policies(reg, request, ui) ==
    RuleLoop(reg.loaded_policies, request, ui, <<>>)

\* the (policy_callable, file_path) pairs of the files that load and have a callable
RECURSIVE LoadedFrom(_)
LoadedFrom(files) ==
    IF files = <<>> THEN <<>>
    ELSE LET f == Head(files)
         IN  IF ~f.loads \/ PolicyCallable(f) = "none"
             THEN LoadedFrom(Tail(files))
             ELSE <<[file |-> f, attr |-> PolicyCallable(f)]>> \o LoadedFrom(Tail(files))

\* api.evaluate_policies: loads POLICIES_DIR on every request, then the same loop
api_evaluate_policies(dir, request, ui) ==
    IF ~dir.configured \/ ~dir.isdir
    THEN EngineResult(PyNone, PyNone, <<>>)
    ELSE RuleLoop(LoadedFrom(PolicyFiles(dir.files)), request, ui, <<>>)

(***************************************************************************)
(* Registry                                                                *)
(***************************************************************************)
EmptyRegistry ==
    [loaded_policies |-> <<>>, request_transformers |-> <<>>, response_transformers |-> <<>>]

\* the transformers load_policies appends: only files that passed the policy_callable check
RECURSIVE TransformersFrom(_, _)
TransformersFrom(files, attr) ==
    IF files = <<>> THEN <<>>
    ELSE LET f == Head(files)
             rest == TransformersFrom(Tail(files), attr)
         IN  IF f.loads /\ PolicyCallable(f) # "none" /\ IsCallable(f[attr])
             THEN <<[file |-> f, attr |-> attr]>> \o rest
             ELSE rest

\* load_policies: _loaded_policies is reset, the transformer lists are appended to
load_policies(reg, dir) ==
    IF ~dir.configured \/ ~dir.isdir
    THEN [reg EXCEPT !.loaded_policies = <<>>]
    ELSE LET files == PolicyFiles(dir.files)
         IN  [loaded_policies |-> LoadedFrom(files),
              request_transformers |->
                  reg.request_transformers \o TransformersFrom(files, "transform_request"),
              response_transformers |->
                  reg.response_transformers \o TransformersFrom(files, "transform_response")]

(***************************************************************************)
(* Shipped response transformers                                           *)
(***************************************************************************)
SECURITY_SYSTEM == "http://keycloak.cirg.uw.edu/fhir/security-labels"
ABSENT_UNKNOWN_SYSTEM == "http://hl7.org/fhir/uv/ips/CodeSystem/absent-unknown-uv-ips"

\* d[k] = x on a copy of the dict
DictSet(v, k, x) ==
    JDict([key \in DOMAIN v.d \cup {k} |-> IF key = k THEN x ELSE v.d[key]])

\* mutant: the system of the label is not compared
has_user_security_label_AnySystem(resource, keycloak_user_id) ==
    IF ~IsDict(resource) THEN FALSE
    ELSE LET meta == JGet(resource, "meta", EmptyDict)
         IN  IF ~IsDict(meta) THEN FALSE
             ELSE LET security == JGet(meta, "security", JList(<<>>))
                  IN  IF ~IsList(security) THEN FALSE
                      ELSE \E i \in 1..Len(security.items) :
                               LET sec == security.items[i]
                               IN  /\ IsDict(sec)
                                   /\ JGet(sec, "code", JNull) = keycloak_user_id

\* _has_user_security_label (the same function in 05_ and 51_)
has_user_security_label(resource, keycloak_user_id) ==
    IF ~IsDict(resource) THEN FALSE
    ELSE LET meta == JGet(resource, "meta", EmptyDict)
         IN  IF ~IsDict(meta) THEN FALSE
             ELSE LET security == JGet(meta, "security", JList(<<>>))
                  IN  IF ~IsList(security) THEN FALSE
                      ELSE \E i \in 1..Len(security.items) :
                               LET sec == security.items[i]
                               IN  /\ IsDict(sec)
                                   /\ JGet(sec, "system", JNull) = JStr(SECURITY_SYSTEM)
                                   /\ JGet(sec, "code", JNull) = keycloak_user_id

\* _is_fhir_resource (51_fhir_response_security)
is_fhir_resource(b) == IsDict(b) /\ HasKey(b, "resourceType")

IsBundle(b) == IsDict(b) /\ JGet(b, "resourceType", JNull) = JStr("Bundle")

\* the sub claim the transformers extract; JNull when there is no usable user_info
KeycloakUserId(ui) ==
    IF ~JTruthy(ui) \/ ~IsDict(ui) THEN JNull ELSE JGet(ui, "sub", JNull)

\* a copy of the bundle with entry = [] and total = 0
EmptiedBundle(bundle) == DictSet(DictSet(bundle, "entry", JList(<<>>)), "total", JNum(0))

\* a copy of the bundle with the given entries and total = their number
BundleWith(bundle, entries) ==
    DictSet(DictSet(bundle, "entry", JList(entries)), "total", JNum(Len(entries)))

\* mutant: the total of the upstream Bundle is left as it was
filter_bundle_entries_StaleTotal(bundle, keycloak_user_id) ==
    IF ~IsDict(bundle) THEN bundle
    ELSE LET entries == JGet(bundle, "entry", JList(<<>>))
         IN  IF ~IsList(entries) THEN bundle
             ELSE DictSet(bundle, "entry",
                      JList(SelectSeq(entries.items,
                          LAMBDA entry :
                              \/ ~IsDict(entry)
                              \/ has_user_security_label(JGet(entry, "resource", JNull),
                                                         keycloak_user_id))))

\* _filter_bundle_entries (51_fhir_response_security)
filter_bundle_entries(bundle, keycloak_user_id) ==
    IF ~IsDict(bundle) THEN bundle
    ELSE LET entries == JGet(bundle, "entry", JList(<<>>))
         IN  IF ~IsList(entries) THEN bundle
             ELSE BundleWith(bundle,
                      SelectSeq(entries.items,
                          LAMBDA entry :
                              \/ ~IsDict(entry)
                              \/ has_user_security_label(JGet(entry, "resource", JNull),
                                                         keycloak_user_id)))

\* 51_fhir_response_security.transform_response; JNull stands for None
transform_response_51(request, response_body, ui) ==
    LET keycloak_user_id == KeycloakUserId(ui)
    IN  IF request.method # "GET" THEN JNull
        ELSE IF ~JTruthy(keycloak_user_id)
        THEN IF IsBundle(response_body) THEN EmptiedBundle(response_body) ELSE JNull
        ELSE IF IsBundle(response_body)
        THEN filter_bundle_entries(response_body, keycloak_user_id)
        ELSE IF is_fhir_resource(response_body)
        THEN IF has_user_security_label(response_body, keycloak_user_id)
             THEN response_body
             ELSE JNull
        ELSE JNull

\* mutant: the operation is accepted on every resource type
is_patient_summary_request_AnyType(request) ==
    LET path == request.path
        n == Len(path)
    IN  /\ n >= 8
        /\ SubSeq(path, 1, 3) = <<Slash, "fhir", Slash>>
        /\ path[5] = Slash
        /\ \A i \in 6..(n - 2) : path[i] # Slash
        /\ path[n - 1] = Slash
        /\ path[n] \in {"$summary", "$everything"}

\* _is_patient_summary_request: ^/fhir/Patient/[^/]+/\$(summary|everything)$
is_patient_summary_request(request) ==
    LET path == request.path
        n == Len(path)
    IN  /\ n >= 8
        /\ SubSeq(path, 1, 5) = <<Slash, "fhir", Slash, "Patient", Slash>>
        /\ \A i \in 6..(n - 2) : path[i] # Slash
        /\ path[n - 1] = Slash
        /\ path[n] \in {"$summary", "$everything"}

\* _is_composition_resource
is_composition_resource(resource) ==
    IsDict(resource) /\ JGet(resource, "resourceType", JNull) = JStr("Composition")

\* _is_absent_unknown_resource
is_absent_unknown_resource(resource) ==
    IF ~IsDict(resource) THEN FALSE
    ELSE LET code == JGet(resource, "code", JNull)
         IN  IF ~IsDict(code) THEN FALSE
             ELSE LET coding == JGet(code, "coding", JNull)
                  IN  IF ~IsList(coding) THEN FALSE
                      ELSE \E i \in 1..Len(coding.items) :
                               /\ IsDict(coding.items[i])
                               /\ JGet(coding.items[i], "system", JNull)
                                      = JStr(ABSENT_UNKNOWN_SYSTEM)

\* _is_resource_allowed_for_summary
is_resource_allowed_for_summary(resource, keycloak_user_id) ==
    \/ is_composition_resource(resource)
    \/ has_user_security_label(resource, keycloak_user_id)
    \/ is_absent_unknown_resource(resource)

\* 05_allow_patient_summary.transform_response; JNull stands for None
transform_response_05(request, response_body, ui) ==
    LET keycloak_user_id == KeycloakUserId(ui)
    IN  IF request.method # "GET" THEN JNull
        ELSE IF ~is_patient_summary_request(request) THEN JNull
        ELSE IF ~IsBundle(response_body) THEN JNull
        ELSE IF ~JTruthy(keycloak_user_id) THEN EmptiedBundle(response_body)
        ELSE LET entries == JGet(response_body, "entry", JList(<<>>))
             IN  IF ~IsList(entries) THEN JNull
                 ELSE BundleWith(response_body,
                          SelectSeq(entries.items,
                              LAMBDA entry :
                                  \/ ~IsDict(entry)
                                  \/ is_resource_allowed_for_summary(
                                         JGet(entry, "resource", JNull), keycloak_user_id)))

\* the outcome of a call that raised
TRaise == [t |-> "raise"]

(***************************************************************************)
(* Object identity: what a transformer does to the object it was handed    *)
(***************************************************************************)
\* mutant: `modified = body`, a second name for the same object
deepcopy_SameObject(v) == [value |-> v, shared |-> TRUE]

\* copy.deepcopy: a reference to a new object of equal value that shares nothing
\* with the object copied
deepcopy(v) == [value |-> v, shared |-> FALSE]

\* ref[k] = x: an item assignment through the reference
Store(ref, k, x) == [ref EXCEPT !.value = DictSet(ref.value, k, x)]

\* the value of an object after the writes made through ref: they reach it only
\* when ref names the object itself
ArgAfter(arg, ref) == IF ref.shared THEN ref.value ELSE arg

\* the bodies of 51_ and 05_ after transform_response returned
body_after_51(request, response_body, ui) ==
    LET keycloak_user_id == KeycloakUserId(ui)
        entries == JGet(response_body, "entry", JList(<<>>))
    IN  IF request.method # "GET" \/ ~IsBundle(response_body) THEN response_body
        ELSE IF ~JTruthy(keycloak_user_id)
        THEN ArgAfter(response_body,
                 Store(Store(deepcopy(response_body), "entry", JList(<<>>)), "total", JNum(0)))
        ELSE IF ~IsList(entries) THEN response_body
        ELSE LET filtered == filter_bundle_entries(response_body, keycloak_user_id)
             IN  ArgAfter(response_body,
                     Store(Store(deepcopy(response_body), "entry", filtered.d.entry),
                           "total", JNum(Len(filtered.d.entry.items))))

body_after_05(request, response_body, ui) ==
    LET keycloak_user_id == KeycloakUserId(ui)
        entries == JGet(response_body, "entry", JList(<<>>))
    IN  IF request.method # "GET" \/ ~is_patient_summary_request(request)
           \/ ~IsBundle(response_body)
        THEN response_body
        ELSE IF ~JTruthy(keycloak_user_id)
        THEN ArgAfter(response_body,
                 Store(Store(deepcopy(response_body), "entry", JList(<<>>)), "total", JNum(0)))
        ELSE IF ~IsList(entries) THEN response_body
        ELSE LET filtered == transform_response_05(request, response_body, ui)
             IN  ArgAfter(response_body,
                     Store(Store(deepcopy(response_body), "entry", filtered.d.entry),
                           "total", JNum(Len(filtered.d.entry.items))))

(***************************************************************************)
(* Shipped request transformer (50_fhir_request_security)                  *)
(***************************************************************************)
\* mutant: the label carries no display
SecurityLabel_NoDisplay(keycloak_user_id) ==
    JDict([system |-> JStr(SECURITY_SYSTEM), code |-> keycloak_user_id])

\* the security label _add_security_label appends
SecurityLabel(keycloak_user_id) ==
    JDict([system |-> JStr(SECURITY_SYSTEM),
           code |-> keycloak_user_id,
           display |-> JStr("Access restricted to " \o keycloak_user_id.s)])

\* mutant: the labels of the same system are kept
add_security_label_KeepOld(resource, keycloak_user_id) ==
    IF ~IsDict(resource) THEN resource
    ELSE LET meta0 == JGet(resource, "meta", EmptyDict)
             meta == IF IsDict(meta0) THEN meta0 ELSE EmptyDict
             security0 == JGet(meta, "security", JList(<<>>))
             security == IF IsList(security0) THEN security0.items ELSE <<>>
         IN  DictSet(resource, "meta",
                 DictSet(meta, "security",
                     JList(Append(SelectSeq(security, LAMBDA sec : IsDict(sec)),
                                  SecurityLabel(keycloak_user_id)))))

\* _add_security_label: the value of the resource after the in-place update
add_security_label(resource, keycloak_user_id) ==
    IF ~IsDict(resource) THEN resource
    ELSE LET meta0 == JGet(resource, "meta", EmptyDict)
             meta == IF IsDict(meta0) THEN meta0 ELSE EmptyDict
             security0 == JGet(meta, "security", JList(<<>>))
             security == IF IsList(security0) THEN security0.items ELSE <<>>
             kept == SelectSeq(security,
                         LAMBDA sec : /\ IsDict(sec)
                                      /\ JGet(sec, "system", JNull) # JStr(SECURITY_SYSTEM))
         IN  DictSet(resource, "meta",
                 DictSet(meta, "security",
                     JList(Append(kept, SecurityLabel(keycloak_user_id)))))

\* str.upper() on the method codes that occur
Upper(s) ==
    CASE s = "post" -> "POST"
      [] s = "Put" -> "PUT"
      [] s = "get" -> "GET"
      [] OTHER -> s

\* entry_request.get("method", "").upper() raises when the method is not a string
EntryRaises(entry) ==
    /\ IsDict(entry)
    /\ IsDict(JGet(entry, "request", EmptyDict))
    /\ JGet(JGet(entry, "request", EmptyDict), "method", JStr("")).t # "str"

\* mutant: every entry with a FHIR resource is labelled, whatever its method
EntryIsSaved_AnyMethod(entry) ==
    LET resource == JGet(entry, "resource", JNull)
    IN  IsDict(resource) /\ HasKey(resource, "resourceType")

\* the entry is a POST/PUT of a FHIR resource
EntryIsSaved(entry) ==
    LET entry_request == JGet(entry, "request", EmptyDict)
        resource == JGet(entry, "resource", JNull)
    IN  /\ IsDict(entry_request)
        /\ Upper(JGet(entry_request, "method", JStr("")).s) \in {"POST", "PUT"}
        /\ IsDict(resource) /\ HasKey(resource, "resourceType")

\* one turn of the loop over the entries of a transaction Bundle: a reference to
\* the object appended to modified_entries
TransactionEntry(entry, keycloak_user_id) ==
    IF ~IsDict(entry) THEN [value |-> entry, shared |-> TRUE]
    ELSE LET modified_entry == deepcopy(entry)
         IN  IF EntryIsSaved(modified_entry.value)
             THEN Store(modified_entry, "resource",
                        add_security_label(modified_entry.value.d.resource, keycloak_user_id))
             ELSE modified_entry

\* 50_fhir_request_security.transform_request: result is the returned body (JNull
\* for None, TRaise for an exception), arg the value of request_body afterwards
call_transform_request_50(request, request_body, ui) ==
    LET keycloak_user_id == KeycloakUserId(ui)
        untouched(result) == [result |-> result, arg |-> request_body]
    IN  IF request.method \notin {"POST", "PUT"} THEN untouched(JNull)
        ELSE IF ~JTruthy(ui) \/ ~IsDict(ui) THEN untouched(JNull)
        ELSE IF ~JTruthy(keycloak_user_id) THEN untouched(JNull)
        ELSE IF ~(IsDict(request_body) /\ HasKey(request_body, "resourceType"))
        THEN untouched(JNull)
        ELSE IF /\ JGet(request_body, "resourceType", JNull) = JStr("Bundle")
                /\ JGet(request_body, "type", JNull) = JStr("transaction")
                /\ IsList(JGet(request_body, "entry", JList(<<>>)))
        THEN LET entries == JGet(request_body, "entry", JList(<<>>)).items
                 raising == {i \in 1..Len(entries) : EntryRaises(entries[i])}
                 done == IF raising = {} THEN Len(entries)
                         ELSE (CHOOSE i \in raising : \A j \in raising : i <= j) - 1
                 refs == [i \in 1..done |-> TransactionEntry(entries[i], keycloak_user_id)]
                 entries_after ==
                     [i \in 1..Len(entries) |->
                         IF i <= done THEN ArgAfter(entries[i], refs[i]) ELSE entries[i]]
                 body_after == IF HasKey(request_body, "entry")
                               THEN DictSet(request_body, "entry", JList(entries_after))
                               ELSE request_body
                 modified_body == deepcopy(request_body)
             IN  IF raising # {}
                 THEN [result |-> TRaise, arg |-> body_after]
                 ELSE LET stored == Store(modified_body, "entry",
                                          JList([i \in 1..done |-> refs[i].value]))
                      IN  [result |-> stored.value, arg |-> ArgAfter(body_after, stored)]
        ELSE LET modified_body == deepcopy(request_body)
                 labelled == [modified_body EXCEPT
                                 !.value = add_security_label(modified_body.value,
                                                              keycloak_user_id)]
             IN  [result |-> labelled.value, arg |-> ArgAfter(request_body, labelled)]

transform_request_50(request, request_body, ui) ==
    call_transform_request_50(request, request_body, ui).result

(***************************************************************************)
(* Transform engine, response side                                         *)
(***************************************************************************)
\* callables a deployment may register beside the shipped ones: a transformer that
\* returns a new dict with one more key, one that writes a key into the dict it was
\* handed and returns it, and one that appends to meta.security of the dict it was
\* handed and returns None; any other registered value is the transformer's constant
\* outcome (a JSON value, JNull for None, TRaise for an exception)
Stamp(key) == [t |-> "fn", fn |-> "stamp", key |-> key]
MutateTop(key) == [t |-> "fn", fn |-> "mutate_top", key |-> key]
MutateNested == [t |-> "fn", fn |-> "mutate_nested"]

\* transformer(req, modified_body, user_info) for such a callable: result is what it
\* returns, arg the value of the handed object afterwards, same whether the result
\* is the handed object itself
CallBehaviour(b, handed) ==
    LET raised == [result |-> TRaise, arg |-> handed, same |-> FALSE]
    IN  IF b.t # "fn" THEN [result |-> b, arg |-> handed, same |-> FALSE]
        ELSE IF ~IsDict(handed) THEN raised
        ELSE IF b.fn = "stamp"
        THEN [result |-> DictSet(handed, b.key, JStr("x")), arg |-> handed, same |-> FALSE]
        ELSE IF b.fn = "mutate_top"
        THEN LET written == DictSet(handed, b.key, JStr("x"))
             IN  [result |-> written, arg |-> written, same |-> TRUE]
        ELSE LET meta == JGet(handed, "meta", JNull)
             IN  IF IsDict(meta) /\ IsList(JGet(meta, "security", JNull))
                 THEN [result |-> JNull,
                       arg |-> DictSet(handed, "meta",
                                   DictSet(meta, "security",
                                       JList(Append(meta.d.security.items, JStr("x"))))),
                       same |-> FALSE]
                 ELSE raised

\* outcome of calling a registered response transformer: a JSON value, JNull for None,
\* or TRaise
InvokeResponseTransformer(tr, request, current, ui) ==
    IF tr.file.transform_response # Shipped
    THEN CallBehaviour(tr.file.transform_response, current).result
    ELSE IF tr.file.fname = File_05_allow_patient_summary.fname
    THEN transform_response_05(request, current, ui)
    ELSE transform_response_51(request, current, ui)

\* the loop of apply_response_transformers; value is JNull when the body was filtered,
\* steps lists what every invoked transformer received and returned
RECURSIVE ResponseLoop(_, _, _, _, _, _, _)
ResponseLoop(transformers, request, modified_body, ui, is_fhir, calls, steps) ==
    IF transformers = <<>>
    THEN [value |-> modified_body, filtered |-> FALSE, calls |-> calls, steps |-> steps]
    ELSE LET tr == Head(transformers)
             result == InvokeResponseTransformer(tr, request, modified_body, ui)
             invoked == Append(calls, tr.file.fname)
             stepped == Append(steps, [fname |-> tr.file.fname, received |-> modified_body,
                                       returned |-> result])
         IN  IF result = TRaise
             THEN ResponseLoop(Tail(transformers), request, modified_body, ui, is_fhir,
                               invoked, stepped)
             ELSE IF result # JNull
             THEN ResponseLoop(Tail(transformers), request, result, ui, is_fhir,
                               invoked, stepped)
             ELSE IF is_fhir /\ IsDict(modified_body)
                     /\ JTruthy(JGet(modified_body, "resourceType", JNull))
             THEN [value |-> JNull, filtered |-> TRUE, calls |-> invoked, steps |-> stepped]
             ELSE ResponseLoop(Tail(transformers), request, modified_body, ui, is_fhir,
                               invoked, stepped)

\* mutant: the first None from a transformer filters the body, FHIR or not
apply_response_transformers_NullFilters(reg, request, response_body, ui) ==
    LET r == ResponseLoop(reg.response_transformers, request, response_body, ui,
                          FALSE, <<>>, <<>>)
        nulls == {i \in 1..Len(r.steps) : r.steps[i].returned = JNull}
        first == CHOOSE i \in nulls : \A j \in nulls : i <= j
    IN  IF nulls = {} THEN r
        ELSE [value |-> JNull, filtered |-> TRUE,
              calls |-> SubSeq(r.calls, 1, first), steps |-> SubSeq(r.steps, 1, first)]

\* policy_engine.apply_response_transformers
apply_response_transformers(reg, request, response_body, ui) ==
    IF ~IsDict(response_body)
    THEN [value |-> response_body, filtered |-> FALSE, calls |-> <<>>, steps |-> <<>>]
    ELSE ResponseLoop(reg.response_transformers, request, response_body, ui,
                      JGet(response_body, "resourceType", JNull) # JNull, <<>>, <<>>)

(***************************************************************************)
(* Transform engine, request side                                          *)
(***************************************************************************)
\* transformer(req, modified_body, user_info) for a registered request transformer
InvokeRequestTransformer(tr, request, current, ui) ==
    IF tr.file.transform_request # Shipped
    THEN CallBehaviour(tr.file.transform_request, current)
    ELSE LET called == call_transform_request_50(request, current, ui)
         IN  [result |-> called.result, arg |-> called.arg, same |-> FALSE]

\* req.json.copy(): a new top-level object whose members are the objects of req.json
ShallowCopy(v) == [value |-> v, nested_shared |-> TRUE]

\* the value of req.json once the object handed to a transformer holds handed_after:
\* a member both hold is one object
JsonAfter(json, modified_body, handed_after) ==
    IF /\ modified_body.nested_shared
       /\ IsDict(json) /\ HasKey(json, "meta")
       /\ IsDict(handed_after) /\ HasKey(handed_after, "meta")
    THEN DictSet(json, "meta", handed_after.d.meta)
    ELSE json

\* the loop of apply_request_transformers: modified_body is a reference, json the
\* value of req.json so far
RECURSIVE RequestLoop(_, _, _, _, _, _)
RequestLoop(transformers, request, modified_body, ui, json, steps) ==
    IF transformers = <<>>
    THEN [value |-> modified_body.value, raised |-> FALSE, json |-> json, steps |-> steps]
    ELSE LET tr == Head(transformers)
             called == InvokeRequestTransformer(tr, request, modified_body.value, ui)
             handed == [modified_body EXCEPT !.value = called.arg]
             current == IF called.result \in {JNull, TRaise} THEN handed
                        ELSE IF called.same THEN handed
                        ELSE [value |-> called.result,
                              nested_shared |->
                                  /\ modified_body.nested_shared
                                  /\ tr.file.transform_request # Shipped
                                  /\ tr.file.transform_request.t = "fn"]
         IN  RequestLoop(Tail(transformers), request, current, ui,
                         JsonAfter(json, modified_body, called.arg),
                         Append(steps, [fname |-> tr.file.fname,
                                        received |-> modified_body.value,
                                        returned |-> called.result]))

\* policy_engine.apply_request_transformers(req, user_info) with req.json = json:
\* value is the returned body (JNull for None), raised whether req.json.copy() raised
apply_request_transformers(reg, request, json, ui) ==
    IF ~JTruthy(json)
    THEN [value |-> JNull, raised |-> FALSE, json |-> json, steps |-> <<>>]
    ELSE IF ~IsDict(json) /\ ~IsList(json)
    THEN [value |-> JNull, raised |-> TRUE, json |-> json, steps |-> <<>>]
    ELSE RequestLoop(reg.request_transformers, request, ShallowCopy(json), ui, json, <<>>)

(***************************************************************************)
(* Settings view (api.config_settings)                                     *)
(***************************************************************************)
\* str.upper() on the chunks configuration keys are written with
UpperChunk(c) ==
    CASE c = "secret" -> "SECRET"
      [] c = "Key" -> "KEY"
      [] c = "upstream_server" -> "UPSTREAM_SERVER"
      [] OTHER -> c

UpperKey(key) == [i \in 1..Len(key) |-> UpperChunk(key[i])]

\* mutant: blacklist = ("SECRET",)
blacklist_SecretOnly == {<<"SECRET">>}

blacklist == {<<"SECRET">>, <<"KEY">>}

\* any(pattern for pattern in blacklist if pattern in key)
Blacklisted(key) == \E pattern \in blacklist : Contains(key, pattern)

\* keys app.config may hold: from_object and Flask's defaults store upper-case names only
ConfigKeys ==
    {<<"UPSTREAM_SERVER">>, <<"SECRET", "_", "KEY">>, <<"LOGSERVER_TOKEN">>, <<"KEY", "CLOAK_URL">>}

ConfigValues == {"v1", "v2"}

Configs == UNION {[keys -> ConfigValues] : keys \in SUBSET ConfigKeys}

DefaultConfig == [k \in {<<"UPSTREAM_SERVER">>, <<"SECRET", "_", "KEY">>} |-> "v1"]

\* current_app.config.get(key)
ConfigGet(cfg, key) == IF key \in DOMAIN cfg THEN PyStr(<<cfg[key]>>) ELSE PyNone

\* config_settings(config_key): config_key is <<>> for the route /settings
config_settings(cfg, config_key) ==
    IF config_key # <<>>
    THEN LET key == UpperKey(config_key)
         IN  IF Blacklisted(key)
             THEN [status |-> 400, kind |-> "abort",
                   description |-> <<"Configuration key ">> \o key \o <<" not available">>]
             ELSE [status |-> 200, kind |-> "setting", key |-> key, value |-> ConfigGet(cfg, key)]
    ELSE [status |-> 200, kind |-> "settings",
          results |-> [key \in {k \in DOMAIN cfg : ~Blacklisted(k)} |-> cfg[key]]]

(***************************************************************************)
(* Pipeline: validate_jwt and proxy_request (api.py)                       *)
(***************************************************************************)
\* PATH_WHITELIST=/hapi-fhir-jpaserver/fhir/metadata,/fhir/metadata
PATH_WHITELIST ==
    {<<Slash, "hapi-fhir-jpaserver", Slash, "fhir", Slash, "metadata">>,
     <<Slash, "fhir", Slash, "metadata">>}

Bearer == "Bearer "

\* request.headers.get("authorization", "")
HeaderValue(request) ==
    IF request.authorization.present THEN request.authorization.value ELSE <<>>

\* mutant: split("Bearer ")[0], what precedes the first occurrence of the separator
LastPiece_FirstPiece(value) ==
    LET seps == {i \in 1..Len(value) : value[i] = Bearer}
        first == IF seps = {} THEN Len(value) + 1 ELSE CHOOSE i \in seps : \A j \in seps : i <= j
    IN  SubSeq(value, 1, first - 1)

\* value.split("Bearer ")[-1]: what follows the last occurrence of the separator
LastPiece(value) ==
    LET seps == {i \in 1..Len(value) : value[i] = Bearer}
        last == IF seps = {} THEN 0 ELSE CHOOSE i \in seps : \A j \in seps : j <= i
    IN  SubSeq(value, last + 1, Len(value))

TokenOf(request) == LastPiece(HeaderValue(request))

\* _extract_user_from_claims
extract_user_from_claims(ui) ==
    IF IsDict(ui)
    THEN LET email == JGet(ui, "email", JNull)
             username == JGet(ui, "preferred_username", JNull)
         IN  IF JTruthy(email) THEN email
             ELSE IF JTruthy(username) THEN username
             ELSE JGet(ui, "sub", JNull)
    ELSE ui

\* str.split('/'): the pieces between the slashes, each a sequence of chunks
RECURSIVE SplitPath(_)
SplitPath(path) ==
    LET slashes == {i \in 1..Len(path) : path[i] = Slash}
    IN  IF slashes = {} THEN <<path>>
        ELSE LET first == CHOOSE i \in slashes : \A j \in slashes : i <= j
             IN  <<SubSeq(path, 1, first - 1)>> \o SplitPath(SubSeq(path, first + 1, Len(path)))

\* an entry handed to the event logger by audit_entry
AuditEntry(level, tags, user, id) == [level |-> level, tags |-> tags, user |-> user, id |-> id]

\* deets_from_url(url, None, None) for an upstream url whose path is the request
\* path: the error entry it logs for a path outside /fhir, and its guess of the
\* resource type and id
deets_from_url(path) ==
    LET items == SplitPath(path)
    IN  [entries |-> IF StartsWith(path, <<Slash, "fhir">>) THEN <<>>
                     ELSE <<AuditEntry("error", <<>>, JNull, PyNone)>>,
         resource_type |-> IF Len(items) < 3 THEN PyNone ELSE PyStr(items[3]),
         id |-> IF Len(items) > 3 THEN PyStr(items[4]) ELSE PyNone]

\* audit_HAPI_change(user_info, method, url=upstream_url): the entries logged
audit_HAPI_change(user, method, path) ==
    LET deets == deets_from_url(path)
    IN  Append(deets.entries,
               AuditEntry("info", <<deets.resource_type, method>>, user, deets.id))

DefaultDenyDescription == <<"Request denied by policy">>

\* mutant: `if not decision` instead of `if decision is False`
proxy_request_DenyUndecided(dir, request, ui, up, auditRaises) ==
    LET d == api_evaluate_policies(dir, request, ui)
    IN  IF d.decision # PyBool(TRUE)
        THEN [response |-> [status |-> 403, kind |-> "abort",
                            description |-> IF Truthy(d.message) THEN d.message
                                            ELSE PyStr(DefaultDenyDescription)],
              decision |-> d.decision, message |-> d.message,
              rules |-> d.calls, upstream |-> 0, audits |-> <<>>, audit_raised |-> FALSE]
        ELSE [response |-> [status |-> 200, kind |-> "json", upstream |-> up],
              decision |-> d.decision, message |-> d.message,
              rules |-> d.calls, upstream |-> 1, audits |-> <<>>, audit_raised |-> FALSE]

\* mutant: the audit block has no except clause
proxy_request_AuditSurfaces(dir, request, ui, up, auditRaises) ==
    LET d == api_evaluate_policies(dir, request, ui)
    IN  IF d.decision = PyBool(FALSE)
        THEN [response |-> [status |-> 403, kind |-> "abort",
                            description |-> IF Truthy(d.message) THEN d.message
                                            ELSE PyStr(DefaultDenyDescription)],
              decision |-> d.decision, message |-> d.message,
              rules |-> d.calls, upstream |-> 0, audits |-> <<>>, audit_raised |-> FALSE]
        ELSE IF ~up.json
        THEN [response |-> [status |-> 200, kind |-> "text", upstream |-> up],
              decision |-> d.decision, message |-> d.message,
              rules |-> d.calls, upstream |-> 1, audits |-> <<>>, audit_raised |-> FALSE]
        ELSE [response |-> IF request.method \in {"POST", "PUT", "DELETE"} /\ auditRaises
                           THEN [status |-> 500, kind |-> "unhandled"]
                           ELSE [status |-> 200, kind |-> "json", upstream |-> up],
              decision |-> d.decision, message |-> d.message,
              rules |-> d.calls, upstream |-> 1,
              audits |-> IF request.method \in {"POST", "PUT", "DELETE"} /\ ~auditRaises
                         THEN audit_HAPI_change(extract_user_from_claims(ui),
                                                request.method, request.path)
                         ELSE <<>>,
              audit_raised |-> request.method \in {"POST", "PUT", "DELETE"} /\ auditRaises]

\* proxy_request: up is the upstream's reply, auditRaises whether audit_HAPI_change raises
proxy_request(dir, request, ui, up, auditRaises) ==
    LET d == api_evaluate_policies(dir, request, ui)
    IN  IF d.decision = PyBool(FALSE)
        THEN [response |-> [status |-> 403, kind |-> "abort",
                            description |-> IF Truthy(d.message) THEN d.message
                                            ELSE PyStr(DefaultDenyDescription)],
              decision |-> d.decision, message |-> d.message,
              rules |-> d.calls, upstream |-> 0, audits |-> <<>>, audit_raised |-> FALSE]
        ELSE IF ~up.json
        THEN [response |-> [status |-> 200, kind |-> "text", upstream |-> up],
              decision |-> d.decision, message |-> d.message,
              rules |-> d.calls, upstream |-> 1, audits |-> <<>>, audit_raised |-> FALSE]
        ELSE [response |-> [status |-> 200, kind |-> "json", upstream |-> up],
              decision |-> d.decision, message |-> d.message,
              rules |-> d.calls, upstream |-> 1,
              audits |-> IF request.method \in {"POST", "PUT", "DELETE"} /\ ~auditRaises
                         THEN audit_HAPI_change(extract_user_from_claims(ui),
                                                request.method, request.path)
                         ELSE <<>>,
              audit_raised |-> request.method \in {"POST", "PUT", "DELETE"} /\ auditRaises]

(***************************************************************************)
(* Inputs of the pipeline                                                  *)
(***************************************************************************)
PathTokens == {Slash, ".well-known", "fhir"}

\* every path of at most n tokens after the leading "/"
PathsUpTo(n) == {<<Slash>> \o s : s \in UNION {[1..k -> PathTokens] : k \in 0..n}}

RequestPaths == PathsUpTo(MaxPathLen) \cup PATH_WHITELIST

AuthorizationValues == UNION {[1..k -> {Bearer, "tok"}] : k \in 0..MaxHeaderLen}

Authorizations ==
    {[present |-> FALSE, value |-> <<>>]}
        \cup {[present |-> TRUE, value |-> v] : v \in AuthorizationValues}

Requests == [method : SUPPORTED_METHODS, path : RequestPaths, authorization : Authorizations]

\* claims a verified token may carry
PipelineClaims ==
    {JDict([sub |-> JStr("u1")]),
     JDict([sub |-> JStr("u1"), preferred_username |-> JStr("user1")]),
     JDict([sub |-> JStr("u1"), email |-> JStr("u1@example.org"),
            preferred_username |-> JStr("user1")])}

\* replies of the upstream server: its status, and whether its body parses as JSON
UpstreamReplies == [status : {200, 404, 500}, json : BOOLEAN]

\* outcomes of PyJWKClient.get_signing_key_from_jwt and jwt.decode on a non-empty token
KeyErrors == {"malformed", "no_signing_key"}
DecodeErrors == {"bad_signature", "wrong_audience"}

UserFile(fname, evaluateAttr, ruleAttr) ==
    [fname |-> fname, loads |-> TRUE, evaluate |-> evaluateAttr, rule |-> ruleAttr,
     transform_request |-> NoAttr, transform_response |-> NoAttr]

DirOf(files) == [configured |-> TRUE, isdir |-> TRUE, files |-> files]
UnsetDir == [configured |-> FALSE, isdir |-> FALSE, files |-> {}]
MissingDir == [configured |-> TRUE, isdir |-> FALSE, files |-> {}]

\* what the single rule of a user-supplied directory answers in the pipeline
PipelineVerdicts ==
    {PyBool(TRUE), PyBool(FALSE), PyNone, PyRaise,
     PyTuple(<<PyStr(StrDeny), PyStr(<<>>)>>),
     PyTuple(<<PyStr(StrDeny), PyStr(<<"blocked">>)>>)}

PipelineDirs ==
    {UnsetDir, MissingDir, DirOf(ShippedPolicies)}
        \cup {DirOf({UserFile(<<"2", "0", "_custom", ".py">>, v, NoAttr)}) : v \in PipelineVerdicts}

NoRequest == [method |-> "GET", path |-> <<Slash>>, authorization |-> [present |-> FALSE, value |-> <<>>]]
NoResponse == [status |-> 0, kind |-> "none"]
NoTrace ==
    [branch |-> "none", jwks |-> 0, jwt |-> "none", evaluated |-> FALSE,
     decision |-> PyNone, message |-> PyNone, rules |-> <<>>,
     upstream |-> 0, audits |-> <<>>, audit_raised |-> FALSE, transformers |-> <<>>]
NoEngine == [called |-> "none"]

Init ==
    /\ policies \in PipelineDirs
    /\ registry = load_policies(EmptyRegistry, policies)
    /\ pc = "idle"
    /\ req = NoRequest
    /\ user_info = JNull
    /\ response = NoResponse
    /\ trace = NoTrace
    /\ body = JNull
    /\ engine = NoEngine
    /\ config = DefaultConfig

\* a request arrives at the catch-all route
NewRequest ==
    /\ pc = "idle"
    /\ pc' = "received"
    /\ req' \in Requests
    /\ UNCHANGED <<config, policies, user_info, response, trace, registry, body, engine>>

\* the response is returned and the request context is destroyed
ResponseSent ==
    /\ pc = "done"
    /\ pc' = "idle"
    /\ req' = NoRequest
    /\ user_info' = JNull
    /\ response' = NoResponse
    /\ trace' = NoTrace
    /\ UNCHANGED <<config, policies, registry, body, engine>>

\* the state after proxy_request(req, upstream_url, ui) returned or aborted
Proxied(branch, ui, jwks, jwt) ==
    \E up \in UpstreamReplies, auditRaises \in BOOLEAN :
        LET r == proxy_request(policies, req, ui, up, auditRaises)
        IN  /\ response' = r.response
            /\ trace' = [branch |-> branch, jwks |-> jwks, jwt |-> jwt,
                         evaluated |-> TRUE, decision |-> r.decision,
                         message |-> r.message, rules |-> r.rules,
                         upstream |-> r.upstream, audits |-> r.audits,
                         audit_raised |-> r.audit_raised, transformers |-> <<>>]
            /\ user_info' = ui

\* validate_jwt, api.py:156-161: the path is in PATH_WHITELIST
ValidateJwtWhitelisted ==
    /\ pc = "received"
    /\ req.path \in PATH_WHITELIST
    /\ Proxied("whitelist", JNull, 0, "none")
    /\ pc' = "done"
    /\ UNCHANGED <<config, policies, req, registry, body, engine>>

\* validate_jwt, api.py:163-165: no token
ValidateJwtTokenMissing ==
    /\ pc = "received"
    /\ req.path \notin PATH_WHITELIST
    /\ TokenOf(req) = <<>>
    /\ response' = [status |-> 400, kind |-> "message", message |-> <<"token missing">>]
    /\ trace' = [NoTrace EXCEPT !.branch = "token_missing"]
    /\ pc' = "done"
    /\ UNCHANGED <<config, policies, req, user_info, registry, body, engine>>

\* validate_jwt, api.py:167-168: get_signing_key_from_jwt raises, outside the try block
ValidateJwtKeyError ==
    /\ pc = "received"
    /\ req.path \notin PATH_WHITELIST
    /\ TokenOf(req) # <<>>
    /\ \E e \in KeyErrors :
          trace' = [NoTrace EXCEPT !.branch = "key_error", !.jwks = 1, !.jwt = e]
    /\ response' = [status |-> 500, kind |-> "unhandled"]
    /\ pc' = "done"
    /\ UNCHANGED <<config, policies, req, user_info, registry, body, engine>>

\* mutant: no except clause for ExpiredSignatureError
ValidateJwtExpired_Uncaught ==
    /\ pc = "received"
    /\ req.path \notin PATH_WHITELIST
    /\ TokenOf(req) # <<>>
    /\ trace' = [NoTrace EXCEPT !.branch = "expired", !.jwks = 1, !.jwt = "expired"]
    /\ response' = [status |-> 500, kind |-> "unhandled"]
    /\ pc' = "done"
    /\ UNCHANGED <<config, policies, req, user_info, registry, body, engine>>

\* validate_jwt, api.py:170-179: jwt.decode raises ExpiredSignatureError
ValidateJwtExpired ==
    /\ pc = "received"
    /\ req.path \notin PATH_WHITELIST
    /\ TokenOf(req) # <<>>
    /\ trace' = [NoTrace EXCEPT !.branch = "expired", !.jwks = 1, !.jwt = "expired"]
    /\ response' = [status |-> 401, kind |-> "message", message |-> <<"token expired">>]
    /\ pc' = "done"
    /\ UNCHANGED <<config, policies, req, user_info, registry, body, engine>>

\* validate_jwt, api.py:170-179: jwt.decode raises an exception the except clause does not name
ValidateJwtDecodeError ==
    /\ pc = "received"
    /\ req.path \notin PATH_WHITELIST
    /\ TokenOf(req) # <<>>
    /\ \E e \in DecodeErrors :
          trace' = [NoTrace EXCEPT !.branch = "decode_error", !.jwks = 1, !.jwt = e]
    /\ response' = [status |-> 500, kind |-> "unhandled"]
    /\ pc' = "done"
    /\ UNCHANGED <<config, policies, req, user_info, registry, body, engine>>

\* validate_jwt, api.py:181-186: the token verifies
ValidateJwtProxied ==
    /\ pc = "received"
    /\ req.path \notin PATH_WHITELIST
    /\ TokenOf(req) # <<>>
    /\ \E claims \in PipelineClaims : Proxied("verified", claims, 1, "valid")
    /\ pc' = "done"
    /\ UNCHANGED <<config, policies, req, registry, body, engine>>

Next ==
    \/ NewRequest
    \/ ValidateJwtWhitelisted
    \/ ValidateJwtTokenMissing
    \/ ValidateJwtKeyError
    \/ ValidateJwtExpired
    \/ ValidateJwtDecodeError
    \/ ValidateJwtProxied
    \/ ResponseSent

Spec == Init /\ [][Next]_vars

(***************************************************************************)
(* Direct calls into policy_engine after application start-up               *)
(* (specification SpecEngine)                                               *)
(***************************************************************************)
StrALLOW == <<"A", "L", "L", "O", "W">>
StrDeNy == <<"D", "e", "N", "y">>
StrDENY == <<"D", "E", "N", "Y">>
StrMaybe == <<"m", "a", "y", "b", "e">>
MsgBlocked == PyStr(<<"blocked by rule">>)
MsgWelcome == PyStr(<<"welcome">>)

\* what the callable of a user-supplied rule may produce
RuleOutcomes ==
    {PyBool(TRUE), PyBool(FALSE), PyNone, PyRaise,
     PyStr(StrAllow), PyStr(StrALLOW), PyStr(StrDeNy), PyStr(StrMaybe),
     PyInt(1), PyInt(0),
     PyTuple(<<>>), PyTuple(<<PyStr(StrDENY)>>),
     PyTuple(<<PyStr(StrDeNy), MsgBlocked>>),
     PyTuple(<<PyBool(TRUE), MsgWelcome>>),
     PyTuple(<<PyNone, MsgBlocked>>)}

Digits == <<"1", "2", "3", "4", "5", "6", "7", "8", "9">>

\* a directory of k rule files named 10_rule.py, 20_rule.py, ... with the given outcomes
RuleDir(outcomes) ==
    DirOf({UserFile(<<Digits[i], "0", "_rule", ".py">>, outcomes[i], NoAttr) :
               i \in 1..Len(outcomes)})

RuleDirs == {RuleDir(o) : o \in UNION {[1..k -> RuleOutcomes] : k \in 0..MaxRules}}

EngineClaims == {JNull, JDict([sub |-> JStr("u1")])}

EngineRequests ==
    [method : SUPPORTED_METHODS, path : PathsUpTo(MaxEnginePathLen),
     authorization : {[present |-> FALSE, value |-> <<>>]}]

EngineInit ==
    /\ \/ /\ policies \in RuleDirs
          /\ req = NoRequest
          /\ user_info = JNull
       \/ /\ policies = DirOf(ShippedPolicies)
          /\ req \in EngineRequests
          /\ user_info \in EngineClaims
    /\ registry = EmptyRegistry
    /\ pc = "startup"
    /\ response = NoResponse
    /\ trace = NoTrace
    /\ body = JNull
    /\ engine = NoEngine
    /\ config = DefaultConfig

\* create_app -> configure_app -> load_policies
CreateApp ==
    /\ pc = "startup"
    /\ registry' = load_policies(registry, policies)
    /\ pc' = "serving"
    /\ UNCHANGED <<config, policies, req, user_info, response, trace, body, engine>>

\* policy_engine.evaluate_policies(req, user_info)
CallEvaluatePolicies ==
    /\ pc = "serving"
    /\ engine' = [called |-> "evaluate_policies",
                  result |-> evaluate_policies(registry, req, user_info)]
    /\ pc' = "returned"
    /\ UNCHANGED <<config, policies, req, user_info, response, trace, registry, body>>

EngineNext == CreateApp \/ CallEvaluatePolicies

SpecEngine == EngineInit /\ [][EngineNext]_vars

(***************************************************************************)
(* Response-side chain after application start-up                           *)
(* (specification SpecResponse)                                             *)
(***************************************************************************)
Label(system, code) == JDict([system |-> JStr(system), code |-> JStr(code)])

Labels ==
    {Label(SECURITY_SYSTEM, "u1"), Label(SECURITY_SYSTEM, "u2"),
     Label("http://terminology.hl7.org/CodeSystem/v3-Confidentiality", "u1")}

SecurityLists == UNION {[1..k -> Labels] : k \in 0..MaxLabels}

\* the meta fields a resource may arrive with
Metas ==
    {JDict([security |-> JList(l)]) : l \in SecurityLists}
        \cup {EmptyDict, JStr("meta"), JDict([security |-> JStr("u1")])}

ResourceTypes == {"Patient", "Observation", "Composition"}

SingleResources ==
    {JDict([resourceType |-> JStr(rt), id |-> JStr("123"), meta |-> m]) :
         rt \in ResourceTypes, m \in Metas}
        \cup {JDict([resourceType |-> JStr(rt), id |-> JStr("123")]) : rt \in ResourceTypes}

\* resources found in the entries of a Bundle
EntryResources ==
    {JDict([resourceType |-> JStr("Patient"), id |-> JStr("1"),
            meta |-> JDict([security |-> JList(<<Label(SECURITY_SYSTEM, "u1")>>)])]),
     JDict([resourceType |-> JStr("Observation"), id |-> JStr("2"),
            meta |-> JDict([security |-> JList(<<Label(SECURITY_SYSTEM, "u2")>>)])]),
     JDict([resourceType |-> JStr("Composition"), id |-> JStr("3")]),
     JDict([resourceType |-> JStr("AllergyIntolerance"), id |-> JStr("4"),
            code |-> JDict([coding |-> JList(<<JDict([system |-> JStr(ABSENT_UNKNOWN_SYSTEM),
                                                      code |-> JStr("no-known-allergies")])>>)])])}

Entries == {JDict([resource |-> r]) : r \in EntryResources}

Bundles ==
    {JDict([resourceType |-> JStr("Bundle"), type |-> JStr("searchset"),
            total |-> JNum(Len(e)), entry |-> JList(e)]) :
         e \in UNION {[1..k -> Entries] : k \in 0..MaxEntries}}

NonFhirBodies ==
    {JDict([message |-> JStr("ok")]), EmptyDict, JList(<<JStr("a")>>), JStr("text"), JNum(0)}

ResponseBodies == SingleResources \cup Bundles \cup NonFhirBodies

IdSegments == UNION {[1..k -> {"123"}] : k \in 0..MaxIdLen}

FhirPaths ==
    LET base(rt) == <<Slash, "fhir", Slash, rt>>
    IN  {base(rt) : rt \in {"Patient", "Observation"}}
            \cup {base(rt) \o <<Slash>> \o id : rt \in {"Patient", "Observation"}, id \in IdSegments}
            \cup {base(rt) \o <<Slash>> \o id \o <<Slash, op>> :
                      rt \in {"Patient", "Observation"}, id \in IdSegments,
                      op \in {"$summary", "$everything", "$validate"}}

ResponseRequests ==
    [method : {"GET", "POST"}, path : FhirPaths,
     authorization : {[present |-> TRUE, value |-> <<Bearer, "tok">>]}]

ResponseClaims ==
    {JNull, JDict([sub |-> JStr("u1")]), JDict([sub |-> JStr("u2")]),
     JDict([email |-> JStr("u1@example.org")])}

ResponseInit ==
    /\ policies = DirOf(ShippedPolicies)
    /\ req \in ResponseRequests
    /\ user_info \in ResponseClaims
    /\ body \in ResponseBodies
    /\ registry = EmptyRegistry
    /\ pc = "startup"
    /\ response = NoResponse
    /\ trace = NoTrace
    /\ engine = NoEngine
    /\ config = DefaultConfig

\* policy_engine.apply_response_transformers(req, response_body, user_info)
CallApplyResponseTransformers ==
    /\ pc = "serving"
    /\ engine' = [called |-> "apply_response_transformers",
                  result |-> apply_response_transformers(registry, req, body, user_info)]
    /\ pc' = "returned"
    /\ UNCHANGED <<config, policies, req, user_info, response, trace, registry, body>>

ResponseNext == CreateApp \/ CallApplyResponseTransformers

SpecResponse == ResponseInit /\ [][ResponseNext]_vars

(***************************************************************************)
(* Direct calls of the shipped transformers                                *)
(* (specification SpecTransformers)                                        *)
(***************************************************************************)
TransformerPaths ==
    {<<Slash, "fhir", Slash, "Patient">>,
     <<Slash, "fhir", Slash, "Patient", Slash, "123">>,
     <<Slash, "fhir", Slash, "Patient", Slash, "123", Slash, "$summary">>,
     <<Slash, "fhir", Slash, "Patient", Slash, "123", Slash, "$everything">>,
     <<Slash, "fhir", Slash, "Patient", Slash, "123", Slash, "$validate">>,
     <<Slash, "fhir", Slash, "Observation", Slash, "123", Slash, "$summary">>}

TransformerRequests ==
    [method : {"GET", "POST", "PUT", "DELETE"}, path : TransformerPaths,
     authorization : {[present |-> TRUE, value |-> <<Bearer, "tok">>]}]

TransformerClaims == ResponseClaims \cup {JDict([sub |-> JStr("")]), EmptyDict}

\* Bundles a well-behaved FHIR server does not send
MalformedBundles ==
    LET e(i) == JDict([resource |-> (CHOOSE r \in EntryResources : r.d.id = JStr(i))])
    IN  {JDict([resourceType |-> JStr("Bundle"), type |-> JStr("searchset"),
                total |-> JNum(5), entry |-> JStr("entries")]),
         JDict([resourceType |-> JStr("Bundle"), type |-> JStr("searchset"),
                total |-> JNum(3), entry |-> JList(<<JStr("entry"), e("1"), e("2")>>)])}

\* Bundles without an entry list, without a total, of another type, with an
\* entry that has no resource
OtherBundles ==
    LET e(i) == JDict([resource |-> (CHOOSE r \in EntryResources : r.d.id = JStr(i))])
    IN  {JDict([resourceType |-> JStr("Bundle"), type |-> JStr("searchset")]),
         JDict([resourceType |-> JStr("Bundle"), type |-> JStr("document"),
                entry |-> JList(<<e("3"), e("1"), e("2"), e("4")>>)]),
         JDict([resourceType |-> JStr("Bundle"),
                meta |-> JDict([security |-> JList(<<Label(SECURITY_SYSTEM, "u1")>>)]),
                total |-> JNum(2),
                entry |-> JList(<<JDict([fullUrl |-> JStr("urn:uuid:1")]), e("2")>>)])}

\* resources whose meta.security holds more than well-formed labels
OddResources ==
    {JDict([resourceType |-> JStr("Patient"),
            meta |-> JDict([security |-> JList(<<JStr("tag"), Label(SECURITY_SYSTEM, "u2"),
                                                 JDict([code |-> JStr("u1")])>>)])]),
     JDict([resourceType |-> JStr("Patient"), meta |-> JDict([versionId |-> JStr("1")])]),
     JDict([resourceType |-> JStr("Observation"),
            meta |-> JDict([versionId |-> JStr("1"),
                            security |-> JList(<<Label(SECURITY_SYSTEM, "u1"),
                                                 Label(SECURITY_SYSTEM, "u1")>>)])])}

TxPatient == JDict([resourceType |-> JStr("Patient"), id |-> JStr("1")])
TxObservation ==
    JDict([resourceType |-> JStr("Observation"), id |-> JStr("2"),
           meta |-> JDict([security |-> JList(<<Label(SECURITY_SYSTEM, "u2")>>)])])
TxRequest(method) == JDict([method |-> method, url |-> JStr("Patient")])

\* entries of a transaction Bundle
TxEntries ==
    {JDict([request |-> TxRequest(JStr("POST")), resource |-> TxPatient]),
     JDict([request |-> TxRequest(JStr("PUT")), resource |-> TxObservation]),
     JDict([request |-> TxRequest(JStr("GET")), resource |-> TxPatient]),
     JDict([request |-> TxRequest(JStr("DELETE"))]),
     JDict([resource |-> TxObservation]),
     JDict([request |-> TxRequest(JStr("post")), resource |-> TxPatient]),
     JDict([request |-> TxRequest(JStr("POST")), resource |-> JDict([id |-> JStr("1")])]),
     JDict([request |-> JStr("POST"), resource |-> TxPatient]),
     JDict([request |-> TxRequest(JNum(1)), resource |-> TxPatient]),
     JStr("entry")}

TransactionBundles ==
    {JDict([resourceType |-> JStr("Bundle"), type |-> JStr("transaction"), entry |-> JList(e)]) :
         e \in UNION {[1..k -> TxEntries] : k \in 0..MaxTxEntries}}
        \cup {JDict([resourceType |-> JStr("Bundle"), type |-> JStr("transaction")]),
              JDict([resourceType |-> JStr("Bundle"), type |-> JStr("transaction"),
                     entry |-> JDict([request |-> TxRequest(JStr("POST")),
                                      resource |-> TxPatient])]),
              JDict([resourceType |-> JStr("Bundle"), type |-> JStr("transaction"),
                     meta |-> JDict([security |-> JList(<<Label(SECURITY_SYSTEM, "u2")>>)]),
                     entry |-> JList(<<JDict([request |-> TxRequest(JStr("PUT")),
                                              resource |-> TxObservation])>>)])}

TransformerBodies ==
    ResponseBodies \cup MalformedBundles \cup OtherBundles \cup OddResources
        \cup TransactionBundles

TransformersInit ==
    /\ policies = DirOf(ShippedPolicies)
    /\ req \in TransformerRequests
    /\ user_info \in TransformerClaims
    /\ body \in TransformerBodies
    /\ registry = load_policies(EmptyRegistry, policies)
    /\ pc = "serving"
    /\ response = NoResponse
    /\ trace = NoTrace
    /\ engine = NoEngine
    /\ config = DefaultConfig

\* the first call returned a body
Called50Returned ==
    /\ pc = "returned"
    /\ engine.called = "transform_request_50"
    /\ engine.result \notin {JNull, TRaise}

\* 50_fhir_request_security.transform_request(req, body, user_info)
CallTransformRequest50 ==
    /\ pc = "serving"
    /\ LET r == call_transform_request_50(req, body, user_info)
       IN  engine' = [called |-> "transform_request_50", result |-> r.result, arg |-> r.arg]
    /\ pc' = "returned"
    /\ UNCHANGED <<config, policies, req, user_info, response, trace, registry, body>>

\* 51_fhir_response_security.transform_response(req, body, user_info)
CallTransformResponse51 ==
    /\ pc = "serving"
    /\ engine' = [called |-> "transform_response_51",
                  result |-> transform_response_51(req, body, user_info),
                  arg |-> body_after_51(req, body, user_info)]
    /\ pc' = "returned"
    /\ UNCHANGED <<config, policies, req, user_info, response, trace, registry, body>>

\* 05_allow_patient_summary.transform_response(req, body, user_info)
CallTransformResponse05 ==
    /\ pc = "serving"
    /\ engine' = [called |-> "transform_response_05",
                  result |-> transform_response_05(req, body, user_info),
                  arg |-> body_after_05(req, body, user_info)]
    /\ pc' = "returned"
    /\ UNCHANGED <<config, policies, req, user_info, response, trace, registry, body>>

\* transform_request(req, b, user_info) on the body b the first call returned
CallTransformRequest50Again ==
    /\ Called50Returned
    /\ LET r == call_transform_request_50(req, engine.result, user_info)
       IN  engine' = [called |-> "transform_request_50_again", first |-> engine.result,
                      result |-> r.result, arg |-> r.arg]
    /\ pc' = "returned_again"
    /\ UNCHANGED <<config, policies, req, user_info, response, trace, registry, body>>

TransformersNext ==
    \/ CallTransformRequest50
    \/ CallTransformRequest50Again
    \/ CallTransformResponse51
    \/ CallTransformResponse05

SpecTransformers == TransformersInit /\ [][TransformersNext]_vars

(***************************************************************************)
(* Requests of the settings view (specification SpecSettings)              *)
(***************************************************************************)
ConfigKeyChunks == {"SECRET", "KEY", "secret", "Key", "_", "upstream_server"}

\* the {config_key} segment of /settings/{config_key}
RequestedKeys == UNION {[1..k -> ConfigKeyChunks] : k \in 1..MaxKeyLen}

SettingsPath == <<Slash, "settings">>

SettingsRequests ==
    [method : {"GET"},
     path : {SettingsPath} \cup {SettingsPath \o <<Slash>> \o k : k \in RequestedKeys},
     authorization : {[present |-> FALSE, value |-> <<>>]}]

SettingsInit ==
    /\ policies = UnsetDir
    /\ config \in Configs
    /\ req \in SettingsRequests
    /\ registry = EmptyRegistry
    /\ pc = "received"
    /\ user_info = JNull
    /\ response = NoResponse
    /\ trace = NoTrace
    /\ body = JNull
    /\ engine = NoEngine

\* GET /settings
ConfigSettingsAll ==
    /\ pc = "received"
    /\ req.path = SettingsPath
    /\ response' = config_settings(config, <<>>)
    /\ pc' = "done"
    /\ UNCHANGED <<config, policies, req, user_info, trace, registry, body, engine>>

\* GET /settings/{config_key}
ConfigSettingsKey ==
    /\ pc = "received"
    /\ Len(req.path) > 3
    /\ response' = config_settings(config, SubSeq(req.path, 4, Len(req.path)))
    /\ pc' = "done"
    /\ UNCHANGED <<config, policies, req, user_info, trace, registry, body, engine>>

SettingsNext == ConfigSettingsAll \/ ConfigSettingsKey

SpecSettings == SettingsInit /\ [][SettingsNext]_vars

(***************************************************************************)
(* Application start-up, possibly repeated in one process                  *)
(* (specification SpecLoad)                                                *)
(***************************************************************************)
\* what a module may hold under each of the four names load_policies probes
ModuleShapes ==
    [loads : BOOLEAN,
     evaluate : {NoAttr, NotCallable, PyNone},
     rule : {NoAttr, PyBool(TRUE)},
     transform_request : {NoAttr, NotCallable, JNull},
     transform_response : {NoAttr, JNull}]

\* file names in the order the modules are written: 9_mod.py, 10_mod.py, 11_mod.py, ...
ModuleNames ==
    <<<<"9", "_mod", ".py">>, <<"1", "0", "_mod", ".py">>, <<"1", "1", "_mod", ".py">>,
      <<"1", "2", "_mod", ".py">>>>

ModuleFile(fname, shape) ==
    [fname |-> fname, loads |-> shape.loads, evaluate |-> shape.evaluate, rule |-> shape.rule,
     transform_request |-> shape.transform_request,
     transform_response |-> shape.transform_response]

\* files of POLICIES_DIR that load_policies does not import
OtherFiles ==
    {[fname |-> <<"__", "init", ".py">>, loads |-> TRUE, evaluate |-> PyNone, rule |-> NoAttr,
      transform_request |-> JNull, transform_response |-> JNull],
     [fname |-> <<"README", ".txt">>, loads |-> TRUE, evaluate |-> NoAttr, rule |-> NoAttr,
      transform_request |-> NoAttr, transform_response |-> NoAttr]}

ModuleDirs ==
    {DirOf({ModuleFile(ModuleNames[i], shapes[i]) : i \in 1..Len(shapes)} \cup OtherFiles) :
         shapes \in UNION {[1..k -> ModuleShapes] : k \in 0..MaxModules}}

LoadInit ==
    /\ policies \in ModuleDirs \cup {UnsetDir, MissingDir, DirOf(ShippedPolicies)}
    /\ registry = EmptyRegistry
    /\ pc = "startup"
    /\ req = NoRequest
    /\ user_info = JNull
    /\ response = NoResponse
    /\ trace = NoTrace
    /\ body = JNull
    /\ engine = NoEngine
    /\ config = DefaultConfig

\* how many times create_app ran after the first time
Reloads == IF engine.called = "create_app" THEN engine.reloads ELSE 0

\* create_app called again in the same process: the module globals of
\* policy_engine are those the earlier call left
CreateAppAgain ==
    /\ pc = "serving"
    /\ Reloads < MaxReloads
    /\ registry' = load_policies(registry, policies)
    /\ engine' = [called |-> "create_app", reloads |-> Reloads + 1]
    /\ UNCHANGED <<config, policies, pc, req, user_info, response, trace, body>>

LoadNext == CreateApp \/ CreateAppAgain

SpecLoad == LoadInit /\ [][LoadNext]_vars

(***************************************************************************)
(* Both transform chains over user-supplied and shipped transformers       *)
(* (specification SpecChain)                                               *)
(***************************************************************************)
ChainBehaviours ==
    {JNull, TRaise, JDict([message |-> JStr("replaced")]),
     JDict([resourceType |-> JStr("Patient"), id |-> JStr("9")]),
     Stamp("a"), MutateTop("b"), MutateNested}

\* a module with a no-decision evaluate whose transform_request and
\* transform_response both behave as b
ChainModule(fname, b) ==
    ModuleFile(fname, [loads |-> TRUE, evaluate |-> PyNone, rule |-> NoAttr,
                       transform_request |-> b, transform_response |-> b])

ChainDirs ==
    {DirOf({ChainModule(ModuleNames[i], bs[i]) : i \in 1..Len(bs)}) :
         bs \in UNION {[1..k -> ChainBehaviours] : k \in 0..MaxTransformers}}

ChainBodies ==
    {JDict([resourceType |-> JStr("Patient"), id |-> JStr("123"),
            meta |-> JDict([security |-> JList(<<Label(SECURITY_SYSTEM, "u1")>>)])]),
     JDict([resourceType |-> JStr("Patient"), id |-> JStr("123")]),
     JDict([resourceType |-> JStr("Bundle"), type |-> JStr("searchset"), total |-> JNum(1),
            entry |-> JList(<<JDict([resource |->
                JDict([resourceType |-> JStr("Patient"), id |-> JStr("1"),
                       meta |-> JDict([security |->
                                          JList(<<Label(SECURITY_SYSTEM, "u1")>>)])])])>>)]),
     JDict([message |-> JStr("ok"), meta |-> JDict([security |-> JList(<<>>)])]),
     JNull, JList(<<>>)}
        \cup NonFhirBodies

ChainRequests ==
    [method : {"GET", "POST"}, path : {<<Slash, "fhir", Slash, "Patient">>},
     authorization : {[present |-> TRUE, value |-> <<Bearer, "tok">>]}]

ChainClaims == {JNull, JDict([sub |-> JStr("u1")])}

ChainInit ==
    /\ policies \in ChainDirs \cup {DirOf(ShippedPolicies)}
    /\ req \in ChainRequests
    /\ user_info \in ChainClaims
    /\ body \in ChainBodies
    /\ registry = EmptyRegistry
    /\ pc = "startup"
    /\ response = NoResponse
    /\ trace = NoTrace
    /\ engine = NoEngine
    /\ config = DefaultConfig

\* policy_engine.apply_request_transformers(req, user_info), req.json being body
CallApplyRequestTransformers ==
    /\ pc = "serving"
    /\ engine' = [called |-> "apply_request_transformers",
                  result |-> apply_request_transformers(registry, req, body, user_info)]
    /\ pc' = "returned"
    /\ UNCHANGED <<config, policies, req, user_info, response, trace, registry, body>>

ChainNext == CreateApp \/ CallApplyResponseTransformers \/ CallApplyRequestTransformers

SpecChain == ChainInit /\ [][ChainNext]_vars

(***************************************************************************)
(* Requests handled concurrently by one process                            *)
(* (specification SpecConcurrent)                                          *)
(***************************************************************************)
\* every variable but the registry is per handler here: req[w], user_info[w] and
\* body[w] are the inputs of handler w, engine[w] the locals of its calls
Workers == 1..MaxWorkers

\* (request, claims, JSON body) of a handled request
RequestProfiles ==
    {[req |-> [method |-> "POST", path |-> <<Slash, "fhir", Slash, "Patient">>,
               authorization |-> [present |-> TRUE, value |-> <<Bearer, "tok">>]],
      user_info |-> JDict([sub |-> JStr("u1")]),
      body |-> JDict([resourceType |-> JStr("Patient"), id |-> JStr("123"),
                      meta |-> JDict([security |->
                                         JList(<<Label(SECURITY_SYSTEM, "u2")>>)])])],
     [req |-> [method |-> "GET", path |-> <<Slash, "fhir", Slash, "Patient">>,
               authorization |-> [present |-> TRUE, value |-> <<Bearer, "tok">>]],
      user_info |-> JNull,
      body |-> JDict([message |-> JStr("ok")])],
     [req |-> [method |-> "POST", path |-> <<Slash, "fhir", Slash, "Patient">>,
               authorization |-> [present |-> TRUE, value |-> <<Bearer, "tok">>]],
      user_info |-> JDict([sub |-> JStr("u2")]),
      body |-> JDict([resourceType |-> JStr("Patient"), id |-> JStr("123")])]}

ConcurrentDirs ==
    {DirOf(ShippedPolicies)}
        \cup {DirOf({ChainModule(ModuleNames[1], b1), ChainModule(ModuleNames[2], b2)}) :
                  b1 \in {Stamp("a"), JNull}, b2 \in {MutateTop("b"), TRaise}}

\* the locals of a handler before its first call
NoLocals ==
    [phase |-> "evaluate", i |-> 1, current |-> JNull,
     decision |-> PyNone, message |-> PyNone,
     request_body |-> JNull, raised |-> FALSE,
     response_body |-> JNull, filtered |-> FALSE]

ConcurrentInit ==
    /\ policies \in ConcurrentDirs
    /\ \E profiles \in [Workers -> RequestProfiles] :
           /\ req = [w \in Workers |-> profiles[w].req]
           /\ user_info = [w \in Workers |-> profiles[w].user_info]
           /\ body = [w \in Workers |-> profiles[w].body]
    /\ engine = [w \in Workers |-> NoLocals]
    /\ registry = EmptyRegistry
    /\ pc = "startup"
    /\ response = NoResponse
    /\ trace = NoTrace
    /\ config = DefaultConfig

\* mutant: modified_body is one module-level name, read as handler 1 left it
ModifiedBody_Global(w) == engine[1].current

\* the local modified_body of the call handler w is in
ModifiedBody(w) == engine[w].current

\* one turn of the loop of evaluate_policies in handler w, or its return
EvaluateStep(w) ==
    /\ pc = "serving"
    /\ engine[w].phase = "evaluate"
    /\ LET rules == registry.loaded_policies
           i == engine[w].i
           decided(d, m) == [engine[w] EXCEPT !.decision = d, !.message = m,
                                              !.phase = "request_entry", !.i = 1]
           next == [engine[w] EXCEPT !.i = i + 1]
       IN  engine' = [engine EXCEPT ![w] =
               IF i > Len(rules) THEN decided(PyNone, PyNone)
               ELSE LET result == Invoke(rules[i], req[w], user_info[w])
                    IN  IF result = PyRaise THEN next
                        ELSE LET n == NormaliseVerdict(result)
                             IN  IF n.decision \in {PyBool(TRUE), PyBool(FALSE)}
                                 THEN decided(n.decision, n.message)
                                 ELSE next]
    /\ UNCHANGED <<config, policies, pc, req, user_info, response, trace, registry, body>>

\* apply_request_transformers in handler w up to the loop
RequestEnter(w) ==
    /\ pc = "serving"
    /\ engine[w].phase = "request_entry"
    /\ engine' = [engine EXCEPT ![w] =
           IF ~JTruthy(body[w])
           THEN [@ EXCEPT !.request_body = JNull, !.phase = "response_entry"]
           ELSE IF ~IsDict(body[w]) /\ ~IsList(body[w])
           THEN [@ EXCEPT !.raised = TRUE, !.phase = "response_entry"]
           ELSE [@ EXCEPT !.current = body[w], !.i = 1, !.phase = "request"]]
    /\ UNCHANGED <<config, policies, pc, req, user_info, response, trace, registry, body>>

\* one turn of the loop of apply_request_transformers in handler w, or its return
RequestStep(w) ==
    /\ pc = "serving"
    /\ engine[w].phase = "request"
    /\ LET trs == registry.request_transformers
           i == engine[w].i
       IN  engine' = [engine EXCEPT ![w] =
               IF i > Len(trs)
               THEN [@ EXCEPT !.request_body = ModifiedBody(w), !.phase = "response_entry"]
               ELSE LET called == InvokeRequestTransformer(trs[i], req[w], ModifiedBody(w),
                                                           user_info[w])
                    IN  [@ EXCEPT !.i = i + 1,
                                  !.current = IF called.result \in {JNull, TRaise}
                                                 \/ called.same
                                              THEN called.arg ELSE called.result]]
    /\ UNCHANGED <<config, policies, pc, req, user_info, response, trace, registry, body>>

\* apply_response_transformers in handler w up to the loop
ResponseEnter(w) ==
    /\ pc = "serving"
    /\ engine[w].phase = "response_entry"
    /\ engine' = [engine EXCEPT ![w] =
           IF ~IsDict(body[w])
           THEN [@ EXCEPT !.response_body = body[w], !.phase = "done"]
           ELSE [@ EXCEPT !.current = body[w], !.i = 1, !.phase = "response"]]
    /\ UNCHANGED <<config, policies, pc, req, user_info, response, trace, registry, body>>

\* one turn of the loop of apply_response_transformers in handler w, or its return
ResponseStep(w) ==
    /\ pc = "serving"
    /\ engine[w].phase = "response"
    /\ LET trs == registry.response_transformers
           i == engine[w].i
           is_fhir == JGet(body[w], "resourceType", JNull) # JNull
           modified_body == ModifiedBody(w)
       IN  engine' = [engine EXCEPT ![w] =
               IF i > Len(trs)
               THEN [@ EXCEPT !.response_body = modified_body, !.phase = "done"]
               ELSE LET result == InvokeResponseTransformer(trs[i], req[w], modified_body,
                                                            user_info[w])
                    IN  IF result = TRaise THEN [@ EXCEPT !.i = i + 1]
                        ELSE IF result # JNull
                        THEN [@ EXCEPT !.i = i + 1, !.current = result]
                        ELSE IF is_fhir /\ IsDict(modified_body)
                                /\ JTruthy(JGet(modified_body, "resourceType", JNull))
                        THEN [@ EXCEPT !.filtered = TRUE, !.response_body = JNull,
                                       !.phase = "done"]
                        ELSE [@ EXCEPT !.i = i + 1]]
    /\ UNCHANGED <<config, policies, pc, req, user_info, response, trace, registry, body>>

ConcurrentNext ==
    \/ CreateApp
    \/ \E w \in Workers : EvaluateStep(w)
    \/ \E w \in Workers : RequestEnter(w)
    \/ \E w \in Workers : RequestStep(w)
    \/ \E w \in Workers : ResponseEnter(w)
    \/ \E w \in Workers : ResponseStep(w)

SpecConcurrent == ConcurrentInit /\ [][ConcurrentNext]_vars

(***************************************************************************)
(* Properties of the pipeline (specification Spec)                         *)
(***************************************************************************)
Handled == pc = "done"

\* C1: a request whose path is an entry of PATH_WHITELIST is forwarded
\* upstream without a token, without any policy rule being invoked (so it is
\* never answered 403) and without any transformer, whatever policies are loaded.
C1_WhitelistBypassesPolicies ==
    (Handled /\ req.path \in PATH_WHITELIST) =>
        /\ trace.jwks = 0
        /\ trace.rules = <<>>
        /\ response.status # 403
        /\ trace.upstream = 1
        /\ trace.transformers = <<>>

\* the Authorization header is absent, or nothing follows its last "Bearer "
EmptyToken(request) ==
    \/ ~request.authorization.present
    \/ request.authorization.value = <<>>
    \/ request.authorization.value[Len(request.authorization.value)] = Bearer

\* C2: a non-whitelisted request without a token is answered 400 "token
\* missing"; no JWKS fetch, no policy evaluation and no upstream request happen.
C2_TokenMissing ==
    (Handled /\ req.path \notin PATH_WHITELIST /\ EmptyToken(req)) =>
        /\ response = [status |-> 400, kind |-> "message", message |-> <<"token missing">>]
        /\ trace.jwks = 0
        /\ ~trace.evaluated
        /\ trace.rules = <<>>
        /\ trace.upstream = 0

C2_Witness ==
    /\ Handled
    /\ req.path \notin PATH_WHITELIST
    /\ req.authorization = [present |-> TRUE, value |-> <<"tok", Bearer>>]
    /\ response.status = 400

\* C3: a non-whitelisted request whose token is expired is answered 401
\* "token expired"; no policy rule is evaluated and nothing is sent upstream.
C3_TokenExpired ==
    (Handled /\ trace.jwt = "expired") =>
        /\ req.path \notin PATH_WHITELIST
        /\ response = [status |-> 401, kind |-> "message", message |-> <<"token expired">>]
        /\ ~trace.evaluated
        /\ trace.rules = <<>>
        /\ trace.upstream = 0

C3_Witness ==
    /\ Handled
    /\ trace.jwt = "expired"
    /\ policies = DirOf(ShippedPolicies)
    /\ response.status = 401

\* C4: with a non-empty token, every verification failure other than
\* expiration ends the request with status 401 and nothing is sent upstream.
C4_VerifyFailure401 ==
    (Handled /\ trace.jwt \in KeyErrors \cup DecodeErrors) =>
        /\ response.status = 401
        /\ trace.upstream = 0

\* C5: when the engine returns Deny, proxy_request aborts with 403 whose
\* description is the rule's message (the default text when the message is
\* empty or absent) and sends nothing upstream; on Allow or Undecided the
\* request is forwarded upstream.
C5_DenyAborts ==
    (Handled /\ trace.evaluated) =>
        IF trace.decision = PyBool(FALSE)
        THEN /\ response.status = 403
             /\ response.description =
                    IF trace.message \in {PyNone, PyStr(<<>>)}
                    THEN PyStr(<<"Request denied by policy">>)
                    ELSE trace.message
             /\ trace.upstream = 0
        ELSE /\ trace.decision \in {PyBool(TRUE), PyNone}
             /\ response.status # 403
             /\ trace.upstream = 1

C5_Witness ==
    /\ Handled
    /\ trace.decision = PyBool(FALSE)
    /\ trace.message = PyStr(<<>>)
    /\ response.status = 403
    /\ response.description = PyStr(<<"Request denied by policy">>)

(***************************************************************************)
(* Properties of the decision engine (specification SpecEngine)            *)
(***************************************************************************)
Evaluated == pc = "returned" /\ engine.called = "evaluate_policies"

\* the spellings of a word in which every letter is in either case
CaseVariants(lower, upper) ==
    {w \in [1..Len(lower) -> {lower[i] : i \in 1..Len(lower)} \cup {upper[i] : i \in 1..Len(upper)}] :
        \A i \in 1..Len(lower) : w[i] \in {lower[i], upper[i]}}

\* the verdict of a rule outcome as the rule contract states it
VerdictOf(outcome) ==
    LET v == IF outcome.py = "tuple" /\ Len(outcome.items) >= 1 THEN outcome.items[1] ELSE outcome
    IN  IF outcome = PyRaise THEN "Undecided"
        ELSE IF v = PyBool(TRUE) \/ (v.py = "str" /\ v.chunks \in CaseVariants(StrAllow, StrALLOW))
        THEN "Allow"
        ELSE IF v = PyBool(FALSE) \/ (v.py = "str" /\ v.chunks \in CaseVariants(StrDeny, StrDENY))
        THEN "Deny"
        ELSE "Undecided"

\* the message that accompanies a rule outcome: the second element of a tuple
MessageOf(outcome) ==
    IF outcome.py = "tuple" /\ Len(outcome.items) >= 2 THEN outcome.items[2] ELSE PyNone

DecisionOf(verdict) ==
    CASE verdict = "Allow" -> PyBool(TRUE)
      [] verdict = "Deny" -> PyBool(FALSE)
      [] OTHER -> PyNone

\* C6: the rules are walked in ascending file-name order and the verdict of
\* the first rule that is Allow or Deny is returned; the rules up to it were
\* each invoked once, none after it is invoked; with every rule Undecided the
\* result is (None, None).
C6_FirstTerminalVerdict ==
    Evaluated =>
        LET rules == registry.loaded_policies
            res == engine.result
            verdict(i) == VerdictOf(Invoke(rules[i], req, user_info))
            terminal == {i \in 1..Len(rules) : verdict(i) # "Undecided"}
            stop == IF terminal = {} THEN Len(rules)
                    ELSE CHOOSE i \in terminal : \A j \in terminal : i <= j
        IN  /\ \A i, j \in 1..Len(rules) :
                   i < j => NameLess(rules[i].file.fname, rules[j].file.fname)
            /\ res.calls = [i \in 1..stop |-> rules[i].file.fname]
            /\ IF terminal = {}
               THEN res.decision = PyNone /\ res.message = PyNone
               ELSE /\ res.decision = DecisionOf(verdict(stop))
                    /\ res.message = MessageOf(Invoke(rules[stop], req, user_info))

C6_Witness ==
    /\ Evaluated
    /\ Len(registry.loaded_policies) = 3
    /\ registry.loaded_policies[1].file.evaluate = PyStr(StrMaybe)
    /\ registry.loaded_policies[2].file.evaluate = PyStr(StrDeNy)
    /\ registry.loaded_policies[3].file.evaluate = PyBool(TRUE)
    /\ engine.result.decision = PyBool(FALSE)
    /\ Len(engine.result.calls) = 2

\* C7: a rule that raises counts as Undecided: the decision equals the one
\* obtained from the rule list without the raising rules, and the exception
\* does not reach the caller.
C7_RaisingRuleIsUndecided ==
    Evaluated =>
        LET rules == registry.loaded_policies
            res == engine.result
            quiet == SelectSeq(rules, LAMBDA p : Invoke(p, req, user_info) # PyRaise)
            expected == evaluate_policies([registry EXCEPT !.loaded_policies = quiet],
                                          req, user_info)
        IN  /\ ~res.raised
            /\ res.decision = expected.decision
            /\ res.message = expected.message

C7_Witness ==
    /\ Evaluated
    /\ Len(registry.loaded_policies) = 2
    /\ registry.loaded_policies[1].file.evaluate = PyRaise
    /\ registry.loaded_policies[2].file.evaluate = PyTuple(<<PyStr(StrDeNy), MsgBlocked>>)
    /\ engine.result.decision = PyBool(FALSE)
    /\ engine.result.message = MsgBlocked

\* C8: a rule result (or the first element of a tuple result) is Allow iff it
\* is true or a string equal to "allow" ignoring case, Deny iff it is false or
\* a string equal to "deny" ignoring case, Undecided otherwise; the message of
\* a tuple (verdict, message) is returned with the verdict.
C8_VerdictNormalisation ==
    (Evaluated /\ Len(registry.loaded_policies) = 1) =>
        LET outcome == Invoke(registry.loaded_policies[1], req, user_info)
            res == engine.result
        IN  /\ res.decision = DecisionOf(VerdictOf(outcome))
            /\ (outcome.py = "tuple" /\ Len(outcome.items) >= 2 /\ VerdictOf(outcome) # "Undecided")
                   => res.message = outcome.items[2]

C8_Witness ==
    /\ Evaluated
    /\ Len(registry.loaded_policies) = 1
    /\ registry.loaded_policies[1].file.evaluate = PyTuple(<<PyStr(StrDeNy), MsgBlocked>>)
    /\ engine.result.decision = PyBool(FALSE)
    /\ engine.result.message = MsgBlocked

ShippedOrder ==
    <<File_00_allow_well_known.fname, File_05_allow_patient_summary.fname,
      File_10_allow_fhir.fname, File_50_fhir_request_security.fname,
      File_51_fhir_response_security.fname, File_99_default_deny.fname>>

\* C9: with the shipped modules the engine is never Undecided: it returns
\* Allow iff the path starts with "/.well-known", contains "/.well-known/" or
\* starts with "/fhir/", and otherwise Deny with the default-deny reason,
\* whatever the method and the claims.
C9_ShippedDecision ==
    (Evaluated /\ policies = DirOf(ShippedPolicies)) =>
        LET res == engine.result
            open == \/ StartsWith(req.path, <<Slash, ".well-known">>)
                    \/ Contains(req.path, <<Slash, ".well-known", Slash>>)
                    \/ StartsWith(req.path, <<Slash, "fhir", Slash>>)
        IN  /\ [i \in 1..Len(registry.loaded_policies) |->
                   registry.loaded_policies[i].file.fname] = ShippedOrder
            /\ IF open THEN res.decision = PyBool(TRUE)
               ELSE /\ res.decision = PyBool(FALSE)
                    /\ res.message =
                         PyStr(<<"Request denied by default policy - no matching rule found">>)

C9_Witness ==
    /\ Evaluated
    /\ policies = DirOf(ShippedPolicies)
    /\ req.method = "DELETE"
    /\ req.path = <<Slash, "fhir">>
    /\ user_info # JNull
    /\ engine.result.decision = PyBool(FALSE)

(***************************************************************************)
(* Properties of the response-side chain (specification SpecResponse)      *)
(***************************************************************************)
ResponseTransformed == pc = "returned" /\ engine.called = "apply_response_transformers"

\* the path is /fhir/{type}/{id}, a single-resource read
SingleResourcePath(path) ==
    /\ Len(path) >= 6
    /\ SubSeq(path, 1, 3) = <<Slash, "fhir", Slash>>
    /\ path[4] # Slash
    /\ path[5] = Slash
    /\ \A i \in 6..Len(path) : path[i] # Slash

\* the resource carries a label {system: SECURITY_SYSTEM, code: u}
CarriesLabel(resource, u) ==
    /\ IsDict(resource) /\ HasKey(resource, "meta")
    /\ IsDict(resource.d.meta) /\ HasKey(resource.d.meta, "security")
    /\ IsList(resource.d.meta.d.security)
    /\ \E i \in 1..Len(resource.d.meta.d.security.items) :
           resource.d.meta.d.security.items[i] = Label(SECURITY_SYSTEM, u)

\* C10: for a GET of a single-resource path with claim sub=u, a non-Bundle
\* FHIR body labelled for u passes the shipped response chain (05 then 51)
\* unsuppressed and unchanged.
C10_LabelledResourcePasses ==
    (/\ ResponseTransformed
     /\ req.method = "GET"
     /\ SingleResourcePath(req.path)
     /\ IsDict(user_info) /\ HasKey(user_info, "sub")
     /\ is_fhir_resource(body) /\ ~IsBundle(body)
     /\ CarriesLabel(body, user_info.d.sub.s))
        => /\ ~engine.result.filtered
           /\ engine.result.value = body

\* the path is /fhir/{type}, a search
SearchPath(path) ==
    /\ Len(path) = 4
    /\ SubSeq(path, 1, 3) = <<Slash, "fhir", Slash>>
    /\ path[4] # Slash

\* the body is a Bundle whose entry is a list of objects
WellFormedBundle(b) ==
    /\ IsBundle(b)
    /\ HasKey(b, "entry") /\ IsList(b.d.entry)
    /\ \A i \in 1..Len(b.d.entry.items) : IsDict(b.d.entry.items[i])

\* the entries of the bundle whose resource is labelled for u, in their order
LabelledEntries(b, u) ==
    SelectSeq(b.d.entry.items, LAMBDA e : HasKey(e, "resource") /\ CarriesLabel(e.d.resource, u))

\* C11: for a GET search with claim sub=u and a Bundle body, the shipped
\* response chain (05 then 51) yields the Bundle with exactly the entries
\* labelled for u, in their order, total equal to their number, type preserved.
C11_SearchBundleFiltered ==
    (/\ ResponseTransformed
     /\ req.method = "GET"
     /\ SearchPath(req.path)
     /\ IsDict(user_info) /\ HasKey(user_info, "sub")
     /\ WellFormedBundle(body))
        => /\ ~engine.result.filtered
           /\ engine.result.value = BundleWith(body, LabelledEntries(body, user_info.d.sub.s))

\* the resource has a code.coding entry in the absent-unknown system
AbsentUnknownCoded(resource) ==
    /\ IsDict(resource) /\ HasKey(resource, "code")
    /\ IsDict(resource.d.code) /\ HasKey(resource.d.code, "coding")
    /\ IsList(resource.d.code.d.coding)
    /\ \E i \in 1..Len(resource.d.code.d.coding.items) :
           LET c == resource.d.code.d.coding.items[i]
           IN  IsDict(c) /\ HasKey(c, "system") /\ c.d.system = JStr(ABSENT_UNKNOWN_SYSTEM)

\* the entries a patient summary keeps for u: Composition, labelled for u, or absent-unknown
SummaryEntries(b, u) ==
    SelectSeq(b.d.entry.items,
        LAMBDA e : /\ HasKey(e, "resource")
                   /\ \/ JGet(e.d.resource, "resourceType", JNull) = JStr("Composition")
                      \/ CarriesLabel(e.d.resource, u)
                      \/ AbsentUnknownCoded(e.d.resource))

\* C12: for GET /fhir/Patient/{id}/$summary or $everything with claim sub=u,
\* the Bundle leaving the shipped response chain (05 then 51) keeps exactly the
\* entries that are a Composition, labelled for u, or absent-unknown coded,
\* with total equal to their number.
C12_SummaryChainKeepsRelaxedSet ==
    (/\ ResponseTransformed
     /\ req.method = "GET"
     /\ is_patient_summary_request(req)
     /\ IsDict(user_info) /\ HasKey(user_info, "sub")
     /\ WellFormedBundle(body))
        => /\ ~engine.result.filtered
           /\ engine.result.value = BundleWith(body, SummaryEntries(body, user_info.d.sub.s))

(***************************************************************************)
(* Properties of the shipped transformers (specification SpecTransformers) *)
(***************************************************************************)
Called(name) == pc = "returned" /\ engine.called = name

\* the claims carry a non-empty sub
HasSub(ui) == IsDict(ui) /\ HasKey(ui, "sub") /\ ui.d.sub.t = "str" /\ ui.d.sub.s # ""

\* the bundle with a new entry list and total, every other field as it was
WithEntries(b, entries) ==
    JDict([k \in DOMAIN b.d \cup {"entry", "total"} |->
              IF k = "entry" THEN JList(entries)
              ELSE IF k = "total" THEN JNum(Len(entries))
              ELSE b.d[k]])

\* a Bundle whose entry, when present, is a list of objects
BundleOfObjects(b) ==
    /\ IsBundle(b)
    /\ HasKey(b, "entry") => WellFormedBundle(b)

\* the entries of the bundle labelled for u; none when there is no entry list
LabelledEntriesOf(b, u) == IF HasKey(b, "entry") THEN LabelledEntries(b, u) ELSE <<>>

\* C13: 51_ transform_response on a GET with claim sub=u and a Bundle body
\* returns the Bundle with exactly the entries labelled {SECURITY_SYSTEM, u}, in
\* their order, total equal to their number, every other field as in the input;
\* when nothing matches, entry = [] and total = 0.
C13_BundleFilter ==
    (/\ Called("transform_response_51")
     /\ req.method = "GET"
     /\ HasSub(user_info)
     /\ BundleOfObjects(body))
        => LET kept == LabelledEntriesOf(body, user_info.d.sub.s)
           IN  /\ engine.result = WithEntries(body, kept)
               /\ engine.result.d.resourceType = JStr("Bundle")
               /\ HasKey(body, "type") => engine.result.d.type = body.d.type
               /\ kept = <<>> => /\ engine.result.d.entry = JList(<<>>)
                                 /\ engine.result.d.total = JNum(0)

C13_Witness ==
    /\ Called("transform_response_51")
    /\ req.method = "GET"
    /\ user_info = JDict([sub |-> JStr("u1")])
    /\ BundleOfObjects(body) /\ HasKey(body, "entry")
    /\ Len(body.d.entry.items) = 3
    /\ Len(engine.result.d.entry.items) = 2
    /\ engine.result.d.total = JNum(2)
    /\ body.d.total = JNum(3)

\* a FHIR resource that is not a Bundle
SingleResource(b) == IsDict(b) /\ HasKey(b, "resourceType") /\ ~IsBundle(b)

\* C14: 51_ transform_response on a GET returns a non-Bundle FHIR resource iff
\* the claims carry a non-empty sub and the resource carries the label
\* {SECURITY_SYSTEM, sub}, and null otherwise; without a sub every single
\* resource yields null and every Bundle yields the Bundle with entry = [] and
\* total = 0, whatever its labels.
C14_SingleResourceGate ==
    (Called("transform_response_51") /\ req.method = "GET") =>
        /\ SingleResource(body) =>
               IF HasSub(user_info) /\ CarriesLabel(body, user_info.d.sub.s)
               THEN engine.result = body
               ELSE engine.result = JNull
        /\ (~HasSub(user_info) /\ IsBundle(body)) =>
               engine.result = WithEntries(body, <<>>)

C14_Witness ==
    /\ Called("transform_response_51")
    /\ req.method = "GET"
    /\ user_info = JDict([sub |-> JStr("u2")])
    /\ body = JDict([resourceType |-> JStr("Patient"), id |-> JStr("123"),
                     meta |-> JDict([security |-> JList(
                         <<Label("http://terminology.hl7.org/CodeSystem/v3-Confidentiality", "u1"),
                           Label(SECURITY_SYSTEM, "u2")>>)])])
    /\ engine.result = body

\* the path is /fhir/Patient/{id}/$summary or /fhir/Patient/{id}/$everything
SummaryPath(path) ==
    /\ Len(path) = 8
    /\ SubSeq(path, 1, 5) = <<Slash, "fhir", Slash, "Patient", Slash>>
    /\ path[6] # Slash
    /\ path[7] = Slash
    /\ path[8] \in {"$summary", "$everything"}

\* the entries a summary keeps for u; none when there is no entry list
SummaryEntriesOf(b, u) == IF HasKey(b, "entry") THEN SummaryEntries(b, u) ELSE <<>>

\* C15: 05_ transform_response returns null unless the request is a GET of
\* /fhir/Patient/{id}/$summary or $everything; on such a request with claim
\* sub=u and a Bundle body it returns the Bundle keeping an entry iff its
\* resource is a Composition, labelled for u, or absent-unknown coded, with
\* total set to the kept count.
C15_SummaryFilter ==
    Called("transform_response_05") =>
        /\ ~(req.method = "GET" /\ SummaryPath(req.path)) => engine.result = JNull
        /\ (/\ req.method = "GET" /\ SummaryPath(req.path)
            /\ HasSub(user_info)
            /\ BundleOfObjects(body))
               => engine.result = WithEntries(body, SummaryEntriesOf(body, user_info.d.sub.s))

C15_Witness ==
    /\ Called("transform_response_05")
    /\ req.method = "GET"
    /\ req.path = <<Slash, "fhir", Slash, "Patient", Slash, "123", Slash, "$everything">>
    /\ user_info = JDict([sub |-> JStr("u1")])
    /\ WellFormedBundle(body)
    /\ JGet(body, "type", JNull) = JStr("document")
    /\ [i \in 1..Len(body.d.entry.items) |-> body.d.entry.items[i].d.resource.d.id]
           = <<JStr("3"), JStr("1"), JStr("2"), JStr("4")>>
    /\ engine.result.d.total = JNum(3)
    /\ [i \in 1..3 |-> engine.result.d.entry.items[i].d.resource.d.id]
           = <<JStr("3"), JStr("1"), JStr("4")>>

\* a Bundle of type "transaction"
TransactionBundle(b) ==
    IsBundle(b) /\ HasKey(b, "type") /\ b.d.type = JStr("transaction")

\* the items of meta.security, none when there is no such list
SecurityOf(resource) ==
    IF /\ HasKey(resource, "meta") /\ IsDict(resource.d.meta)
       /\ HasKey(resource.d.meta, "security") /\ IsList(resource.d.meta.d.security)
    THEN resource.d.meta.d.security.items
    ELSE <<>>

InSecuritySystem(sec) ==
    IsDict(sec) /\ HasKey(sec, "system") /\ sec.d.system = JStr(SECURITY_SYSTEM)

\* the label of s: {system: SECURITY_SYSTEM, code: s, display: "Access restricted to s"}
LabelOf(s) ==
    JDict([system |-> JStr(SECURITY_SYSTEM), code |-> JStr(s),
           display |-> JStr("Access restricted to " \o s)])

\* after is before, labelled for s: one label of SECURITY_SYSTEM, that of s; the
\* labels of other systems kept in their order; every other field as it was
LabelledFor(before, after, s) ==
    /\ IsDict(after)
    /\ DOMAIN after.d = DOMAIN before.d \cup {"meta"}
    /\ \A k \in DOMAIN before.d \ {"meta"} : after.d[k] = before.d[k]
    /\ IsDict(after.d.meta)
    /\ HasKey(after.d.meta, "security") /\ IsList(after.d.meta.d.security)
    /\ (HasKey(before, "meta") /\ IsDict(before.d.meta)) =>
           /\ DOMAIN after.d.meta.d = DOMAIN before.d.meta.d \cup {"security"}
           /\ \A k \in DOMAIN before.d.meta.d \ {"security"} :
                  after.d.meta.d[k] = before.d.meta.d[k]
    /\ LET security == after.d.meta.d.security.items
       IN  /\ Cardinality({i \in 1..Len(security) : InSecuritySystem(security[i])}) = 1
           /\ \E i \in 1..Len(security) : security[i] = LabelOf(s)
           /\ SelectSeq(security, LAMBDA sec : ~InSecuritySystem(sec))
                  = SelectSeq(SecurityOf(before),
                              LAMBDA sec : IsDict(sec) /\ ~InSecuritySystem(sec))

\* C16: for a POST/PUT of a single FHIR resource (not a transaction Bundle)
\* with claim sub=s, 50_ transform_request returns the body with exactly one
\* meta.security label of SECURITY_SYSTEM, of code s and display "Access
\* restricted to s", the prior labels of that system gone and those of other
\* systems kept; for another method, a non-FHIR body, absent claims or an
\* absent sub it returns null.
C16_SingleResourceLabelled ==
    Called("transform_request_50") =>
        /\ (\/ req.method \notin {"POST", "PUT"}
            \/ ~(IsDict(body) /\ HasKey(body, "resourceType"))
            \/ ~HasSub(user_info))
               => engine.result = JNull
        /\ (/\ req.method \in {"POST", "PUT"}
            /\ HasSub(user_info)
            /\ IsDict(body) /\ HasKey(body, "resourceType")
            /\ ~TransactionBundle(body))
               => LabelledFor(body, engine.result, user_info.d.sub.s)

C16_Witness ==
    /\ Called("transform_request_50")
    /\ req.method = "PUT"
    /\ user_info = JDict([sub |-> JStr("u1")])
    /\ body = JDict([resourceType |-> JStr("Patient"), id |-> JStr("123"),
                     meta |-> JDict([security |-> JList(
                         <<Label(SECURITY_SYSTEM, "u2"),
                           Label("http://terminology.hl7.org/CodeSystem/v3-Confidentiality", "u1")>>)])])
    /\ engine.result.d.meta.d.security.items =
           <<Label("http://terminology.hl7.org/CodeSystem/v3-Confidentiality", "u1"),
             LabelOf("u1")>>

\* the entries of a transaction Bundle; none when it has no entry
TxEntriesOf(b) == IF HasKey(b, "entry") THEN b.d.entry.items ELSE <<>>

\* the entry list is absent or a list, and every request.method is a string
WellFormedTransaction(b) ==
    /\ TransactionBundle(b)
    /\ HasKey(b, "entry") => IsList(b.d.entry)
    /\ \A i \in 1..Len(TxEntriesOf(b)) :
           LET e == TxEntriesOf(b)[i]
           IN  (/\ IsDict(e) /\ HasKey(e, "request") /\ IsDict(e.d.request)
                /\ HasKey(e.d.request, "method"))
                   => e.d.request.d.method.t = "str"

\* the entry's request.method is POST or PUT, in any letter case
SaveMethod(e) ==
    /\ IsDict(e) /\ HasKey(e, "request") /\ IsDict(e.d.request)
    /\ HasKey(e.d.request, "method")
    /\ e.d.request.d.method \in {JStr("POST"), JStr("PUT"), JStr("post"), JStr("Put")}

\* the entry's request.method is GET or DELETE, or the entry has no request
ReadOrDeleteOrNoRequest(e) ==
    \/ ~IsDict(e)
    \/ ~HasKey(e, "request")
    \/ /\ IsDict(e.d.request) /\ HasKey(e.d.request, "method")
       /\ e.d.request.d.method \in {JStr("GET"), JStr("DELETE")}

FhirResourceOf(e) ==
    IsDict(e) /\ HasKey(e, "resource") /\ IsDict(e.d.resource)
        /\ HasKey(e.d.resource, "resourceType")

\* C17: for a POST/PUT of a transaction Bundle, 50_ transform_request labels
\* exactly the nested FHIR resources of the entries whose request.method is
\* POST or PUT; entries whose method is GET or DELETE, or without a request,
\* come out equal to the input entries; entry order and count are unchanged and
\* the Bundle's own fields, its meta included, are as they were.
C17_TransactionEntriesLabelled ==
    (/\ Called("transform_request_50")
     /\ req.method \in {"POST", "PUT"}
     /\ HasSub(user_info)
     /\ WellFormedTransaction(body))
        => LET before == TxEntriesOf(body)
               result == engine.result
           IN  /\ IsDict(result)
               /\ DOMAIN result.d = DOMAIN body.d \cup {"entry"}
               /\ \A k \in DOMAIN body.d \ {"entry"} : result.d[k] = body.d[k]
               /\ IsList(result.d.entry)
               /\ Len(result.d.entry.items) = Len(before)
               /\ \A i \in 1..Len(before) :
                      LET e == before[i]
                          o == result.d.entry.items[i]
                      IN  /\ (SaveMethod(e) /\ FhirResourceOf(e)) =>
                                 /\ IsDict(o) /\ DOMAIN o.d = DOMAIN e.d
                                 /\ \A k \in DOMAIN e.d \ {"resource"} : o.d[k] = e.d[k]
                                 /\ LabelledFor(e.d.resource, o.d.resource, user_info.d.sub.s)
                          /\ ReadOrDeleteOrNoRequest(e) => o = e
                          /\ o # e => (SaveMethod(e) /\ FhirResourceOf(e))

C17_Witness ==
    /\ Called("transform_request_50")
    /\ req.method = "POST"
    /\ user_info = JDict([sub |-> JStr("u1")])
    /\ WellFormedTransaction(body)
    /\ TxEntriesOf(body) =
           <<JDict([request |-> TxRequest(JStr("GET")), resource |-> TxPatient]),
             JDict([request |-> TxRequest(JStr("PUT")), resource |-> TxObservation])>>
    /\ engine.result.d.entry.items[1] = body.d.entry.items[1]
    /\ engine.result.d.entry.items[2].d.resource.d.meta.d.security.items = <<LabelOf("u1")>>

\* C18: 50_ transform_request is idempotent for a fixed request and claim:
\* applied to the body it returned for a FHIR body, it returns that body again.
C18_Idempotent ==
    (pc = "returned_again" /\ engine.called = "transform_request_50_again") =>
        engine.result = engine.first

C18_Witness ==
    /\ pc = "returned_again"
    /\ engine.called = "transform_request_50_again"
    /\ TransactionBundle(body)
    /\ HasKey(body, "entry") /\ IsList(body.d.entry) /\ Len(body.d.entry.items) = 2
    /\ body.d.entry.items[1] = JDict([request |-> TxRequest(JStr("PUT")), resource |-> TxObservation])
    /\ engine.first # body
    /\ engine.result = engine.first

\* C19: the shipped transformers (50_ transform_request, 51_ and 05_
\* transform_response) never mutate the body they are handed: after the call
\* the object, nested meta.security lists and Bundle entries included, has the
\* value it had before, whether a new value or null was returned.
C19_InputNotMutated ==
    /\ (pc = "returned" /\ engine.called \in {"transform_request_50",
                                              "transform_response_51",
                                              "transform_response_05"})
           => engine.arg = body
    /\ (pc = "returned_again") => engine.arg = engine.first

C19_Witness ==
    /\ Called("transform_request_50")
    /\ req.method = "POST"
    /\ TransactionBundle(body)
    /\ HasKey(body, "meta")
    /\ engine.result \notin {JNull, TRaise, body}
    /\ engine.arg = body

(***************************************************************************)
(* Properties of the audit trail (specification Spec)                      *)
(***************************************************************************)
\* the user of an audit event: email, else preferred_username, else sub
AuditUser(ui) ==
    IF ~IsDict(ui) THEN ui
    ELSE IF HasKey(ui, "email") THEN ui.d.email
    ELSE IF HasKey(ui, "preferred_username") THEN ui.d.preferred_username
    ELSE ui.d.sub

\* C20: every POST, PUT or DELETE that proxy_request forwarded upstream and
\* that got an upstream response produced exactly one audit event, tagged
\* [resourceType, method] and carrying the user derived from the claims,
\* whatever the format of the upstream body; a GET or OPTIONS produced none.
C20_OneAuditEventPerChange ==
    (Handled /\ trace.upstream = 1) =>
        IF req.method \in {"POST", "PUT", "DELETE"}
        THEN /\ Len(trace.audits) = 1
             /\ trace.audits[1].tags[2] = req.method
             /\ trace.audits[1].user = AuditUser(user_info)
        ELSE trace.audits = <<>>

\* C21: when emitting the audit event raises, proxy_request returns to the
\* client the response it returns when the audit succeeds: same status, same body.
C21_AuditFailureInvisible ==
    (Handled /\ trace.audit_raised) =>
        /\ response.kind = "json"
        /\ response = proxy_request(policies, req, user_info, response.upstream, FALSE).response
        /\ trace.audits = <<>>

C21_Witness ==
    /\ Handled
    /\ trace.audit_raised
    /\ req.method = "DELETE"
    /\ policies = DirOf(ShippedPolicies)
    /\ response.status = 200

\* C22: for every forwarded request that is not denied, the status returned to
\* the client equals the status of the upstream response, for JSON and non-JSON
\* upstream bodies alike.
C22_UpstreamStatusPassedThrough ==
    (Handled /\ trace.upstream = 1) => response.status = response.upstream.status

(***************************************************************************)
(* Properties of the settings view (specification SpecSettings)            *)
(***************************************************************************)
\* the upper-case form of the key contains "SECRET" or "KEY"
Protected(key) ==
    Contains(UpperKey(key), <<"SECRET">>) \/ Contains(UpperKey(key), <<"KEY">>)

\* the two configurations differ in protected keys only
SameUnprotected(c1, c2) ==
    /\ {k \in DOMAIN c1 : ~Protected(k)} = {k \in DOMAIN c2 : ~Protected(k)}
    /\ \A k \in DOMAIN c1 : ~Protected(k) => c1[k] = c2[k]

RequestedKey == IF Len(req.path) > 3 THEN SubSeq(req.path, 4, Len(req.path)) ELSE <<>>

\* C23: GET /settings omits every key whose upper-case form contains "SECRET"
\* or "KEY"; GET /settings/{k} answers 400 without the value whenever the
\* upper-case form of k contains "SECRET" or "KEY"; configurations that differ
\* only in such keys get identical responses on both endpoints.
C23_SettingsNeverDisclose ==
    (pc = "done" /\ StartsWith(req.path, SettingsPath)) =>
        /\ response.kind = "settings" =>
               /\ RequestedKey = <<>>
               /\ \A k \in DOMAIN response.results : ~Protected(k)
               /\ \A k \in DOMAIN config : ~Protected(k) =>
                      k \in DOMAIN response.results /\ response.results[k] = config[k]
        /\ (RequestedKey # <<>> /\ Protected(RequestedKey)) =>
               /\ response.status = 400
               /\ response.kind = "abort"
        /\ \A other \in Configs :
               SameUnprotected(config, other) =>
                   config_settings(other, RequestedKey) = response

C23_Witness ==
    /\ pc = "done"
    /\ req.path = SettingsPath \o <<Slash, "secret", "_", "Key">>
    /\ <<"SECRET", "_", "KEY">> \in DOMAIN config
    /\ response.status = 400

(***************************************************************************)
(* Properties of the registry (specification SpecLoad)                     *)
(***************************************************************************)
\* the modules of POLICIES_DIR that load_policies imports without error
LoadableModules ==
    {f \in policies.files :
        /\ f.loads
        /\ f.fname[Len(f.fname)] = ".py"
        /\ f.fname[1] # "__"}

\* the file names listed by a registry view, in its order
NamesOf(view) == [i \in 1..Len(view) |-> view[i].file.fname]

Listed(view, f) == \E i \in 1..Len(view) : view[i].file.fname = f.fname

HasCapability(f, name) == f[name] \notin {NoAttr, NotCallable}

\* C24: load_policies registers each capability a module exports
\* independently of the others: a module exporting only transform_request
\* and/or transform_response is listed in the corresponding transformer
\* view(s), and a module is ignored only when it exports none of evaluate/rule,
\* transform_request, transform_response.
C24_CapabilitiesIndependent ==
    (pc = "serving" /\ policies.configured /\ policies.isdir) =>
        \A f \in LoadableModules :
            /\ HasCapability(f, "transform_request")
                   <=> Listed(registry.request_transformers, f)
            /\ HasCapability(f, "transform_response")
                   <=> Listed(registry.response_transformers, f)
            /\ (HasCapability(f, "evaluate") \/ HasCapability(f, "rule"))
                   <=> Listed(registry.loaded_policies, f)

(***************************************************************************)
(* Properties of the transform chains (specification SpecChain)            *)
(***************************************************************************)
\* the body the loop held when it invoked the i-th transformer of a call
ReceivedAt(i) == engine.result.steps[i].received

\* C25: in apply_response_transformers, when the body is a single non-Bundle FHIR
\* resource and a transformer returns None, that transformer is the last one
\* invoked and the engine returns None; when the body is a Bundle, a transformer
\* returning None never makes the engine return None.
C25_SuppressionOnlyForSingleResource ==
    Called("apply_response_transformers") =>
        LET r == engine.result
        IN  /\ SingleResource(body) =>
                \A i \in 1..Len(r.steps) :
                    (r.steps[i].returned = JNull /\ SingleResource(ReceivedAt(i))) =>
                        /\ i = Len(r.steps)
                        /\ Len(r.steps) <= Len(registry.response_transformers)
                        /\ r.filtered
                        /\ r.value = JNull
            /\ IsBundle(body) => (~r.filtered /\ r.value # JNull)

NoInPlaceTransformer ==
    \A i \in 1..Len(registry.request_transformers) :
        LET b == registry.request_transformers[i].file.transform_request
        IN  b = Shipped \/ b.t # "fn" \/ b.fn = "stamp"

\* the request transformers are invoked in registry order, each on the value the
\* latest earlier non-None result left (the initial body if there is none), a None
\* or an exception leaving the current body as it is, and the last current body is
\* returned
Threaded ==
    LET r == engine.result
        n == Len(r.steps)
        after(i) == IF r.steps[i].returned \in {JNull, TRaise}
                    THEN r.steps[i].received ELSE r.steps[i].returned
    IN  /\ n = Len(registry.request_transformers)
        /\ \A i \in 1..n : r.steps[i].fname = registry.request_transformers[i].file.fname
        /\ n > 0 => r.steps[1].received = body
        /\ \A i \in 1..(n - 1) : r.steps[i + 1].received = after(i)
        /\ ~r.raised
        /\ r.value = IF n = 0 THEN body ELSE after(n)

\* C27: apply_request_transformers threads the body through the request
\* transformers in registry order: each receives the value returned by the latest
\* earlier transformer that returned non-None (the initial body if none did), a
\* None or an exception leaves the current body unchanged and the chain continues,
\* the final current body is returned, and with no transformer registered the
\* result equals the request's parsed JSON for every JSON body.
C27_RequestChainThreads ==
    (Called("apply_request_transformers") /\ body # JNull /\ NoInPlaceTransformer) =>
        Threaded

\* C28: after apply_request_transformers returns, req.json, nested objects such as
\* meta and meta.security included, equals its value before the call, even when a
\* registered transformer writes into the body it was handed.
C28_ParsedBodyNotMutated ==
    Called("apply_request_transformers") => engine.result.json = body

\* the modules load_policies registers under a capability: loadable, with a
\* decision callable, and for a transformer view with that transformer
Registrable(name) ==
    {f \in LoadableModules :
        /\ HasCapability(f, "evaluate") \/ HasCapability(f, "rule")
        /\ name # "decision" => HasCapability(f, name)}

\* the view lists exactly the modules of the set, each once, in ascending
\* byte-wise order of file name
ListsOnceInOrder(view, modules) ==
    /\ {view[i].file.fname : i \in 1..Len(view)} = {f.fname : f \in modules}
    /\ \A i \in 1..(Len(view) - 1) : NameLess(view[i].file.fname, view[i + 1].file.fname)

\* C29: after any number of load_policies calls in one process, each of the three
\* registry views lists every loadable module of POLICIES_DIR that has the
\* capability exactly once, in byte-wise ascending file-name order; a module that
\* fails to load is skipped without keeping later modules from being registered.
C29_ViewsListModulesOnce ==
    (pc = "serving" /\ policies.configured /\ policies.isdir) =>
        /\ ListsOnceInOrder(registry.loaded_policies, Registrable("decision"))
        /\ ListsOnceInOrder(registry.request_transformers, Registrable("transform_request"))
        /\ ListsOnceInOrder(registry.response_transformers,
                            Registrable("transform_response"))

(***************************************************************************)
(* Properties of concurrent handling (specification SpecConcurrent)        *)
(***************************************************************************)
\* handler w has left the call
Past(w, phases) == engine[w].phase \notin phases

\* C30: for any interleaving of concurrently handled requests, evaluate_policies,
\* apply_request_transformers and apply_response_transformers never write to the
\* three registry views, and the decision and the transformed bodies of each
\* request are those obtained when that request is handled alone.
C30_HandlersIsolated ==
    pc = "serving" =>
        /\ registry = load_policies(EmptyRegistry, policies)
        /\ \A w \in Workers :
               LET decided == evaluate_policies(registry, req[w], user_info[w])
                   sent == apply_request_transformers(registry, req[w], body[w],
                                                      user_info[w])
                   received == apply_response_transformers(registry, req[w], body[w],
                                                           user_info[w])
               IN  /\ Past(w, {"evaluate"}) =>
                       /\ engine[w].decision = decided.decision
                       /\ engine[w].message = decided.message
                   /\ Past(w, {"evaluate", "request_entry", "request"}) =>
                       /\ engine[w].request_body = sent.value
                       /\ engine[w].raised = sent.raised
                   /\ engine[w].phase = "done" =>
                       /\ engine[w].response_body = received.value
                       /\ engine[w].filtered = received.filtered

C30_Witness ==
    /\ pc = "serving"
    /\ engine[1].phase = "request" /\ engine[1].i = 2
    /\ engine[2].phase = "response" /\ engine[2].i = 2
    /\ body[1] # body[2]
    /\ engine[1].current # body[1]
    /\ engine[2].current # engine[1].current

====
